---- MODULE Spec2Model ----
(***************************************************************************)
(* Dubai rent-contract analysis: the validator (lib/classes/validators.py), *)
(* the enricher (lib/transform/enrichment.py), the analytics engine        *)
(* (lib/classes/market_analytics.py) and the usage report                  *)
(* (lib/classes/property_usage.py), with the constants of lib/config.py.   *)
(*                                                                         *)
(* A dataset (polars DataFrame) is a sequence of rows `df` together with   *)
(* its `schema`, a function from the names of the columns it has to their  *)
(* dtypes.  A cell is <<>> when null and <<v>> when it holds v.  Dates are *)
(* day ordinals.  Ratios (price per square foot, percentages) are exact    *)
(* fractions <<numerator, denominator>>; the rounding of IEEE doubles is   *)
(* not modelled.                                                           *)
(***************************************************************************)
EXTENDS Integers, Sequences, FiniteSets, TLC

VARIABLES
    df,         \* the rows of the dataset handed to the component under study
    schema,     \* column name -> dtype, for the columns the dataset has
    result,     \* a ValidationResult driven through its add_* methods
    results,    \* strict -> outcome of validate_rent_contracts(df, strict)
    enriched,   \* outcome of RentContractsEnricher(df).enrich()
    ma,         \* the MarketAnalytics object (its data), or NoObject
    out,        \* outcome of the last analytics / report operation
    tr,         \* a run of RentContractsTransformer.transform, or Null
    dl          \* a run of a RentContractsDownloader request loop, or Null

vars == <<df, schema, result, results, enriched, ma, out, tr, dl>>

(***************************************************************************)
(* Bounds of the model.                                                    *)
(***************************************************************************)
MaxRows == 2        \* longest dataset drawn from the product row domains
MaxMissing == 1     \* most columns dropped from the full schema
MaxMessages == 3    \* longest sequence of add_* calls on one ValidationResult

(***************************************************************************)
(* Cells, rows and generic helpers.                                        *)
(***************************************************************************)
Null == <<>>
Some(v) == <<v>>
IsNull(c) == c = <<>>
NotNull(c) == c # <<>>
Val(c) == c[1]

Range(s) == {s[i] : i \in 1..Len(s)}
BoundedSeq(S, n) == UNION {[1..k -> S] : k \in 0..n}
Count(s, Test(_)) == Len(SelectSeq(s, Test))
HasCol(sch, c) == c \in DOMAIN sch
Restrict(f, S) == [x \in S |-> f[x]]

RECURSIVE SumSeq(_)
SumSeq(s) == IF s = <<>> THEN 0 ELSE Head(s) + SumSeq(Tail(s))

\* The value printed by the format "{pct:.2f}" for pct = n / d * 100, in
\* hundredths.  (n / d * 100 is never half-way between two hundredths for
\* d < 32, so the rounding mode does not show.)
Pct2(n, d) == (20000 * n + d) \div (2 * d)

(***************************************************************************)
(* lib/config.py                                                           *)
(***************************************************************************)
min_annual_rent == 10000
max_annual_rent == 5000000
min_property_size == 200
max_property_size == 50000
min_psf_residential == 20
max_psf_residential == 500
min_psf_commercial == 30
max_psf_commercial == 800
min_contract_days == 30
max_contract_days == 730

luxury_psf_percentile == 75
luxury_rent_percentile == 80
min_area_sample_size == 10

required_fields == <<"contract_id", "contract_start_date", "property_usage_en", "annual_amount">>
numeric_fields == <<"annual_amount", "contract_amount", "no_of_prop">>
date_fields == <<"contract_start_date", "contract_end_date">>

RESIDENTIAL_USAGE ==
    {"Residential", "Residential - Apartment", "Residential - Villa",
     "Residential - Townhouse", "Residential - Studio"}
COMMERCIAL_USAGE ==
    {"Commercial", "Commercial - Office", "Commercial - Retail", "Commercial - Warehouse"}

is_residential(usage) == usage \in RESIDENTIAL_USAGE
is_commercial(usage) == usage \in COMMERCIAL_USAGE

(***************************************************************************)
(* ValidationResult (validators.py)                                        *)
(***************************************************************************)
NewValidationResult == [errors |-> <<>>, warnings |-> <<>>, info |-> <<>>, is_valid |-> TRUE]

add_error_keeps_valid(r, message) == [r EXCEPT !.errors = Append(@, message)]
add_error(r, message) == [r EXCEPT !.errors = Append(@, message), !.is_valid = FALSE]
add_warning(r, message) == [r EXCEPT !.warnings = Append(@, message)]
add_info(r, message) == [r EXCEPT !.info = Append(@, message)]

(***************************************************************************)
(* RentContractValidator (validators.py).  A message is the record of what *)
(* its f-string prints: the check that wrote it, the field names (or the   *)
(* field and its dtype) it names, the count and the percentage.            *)
(***************************************************************************)
Msg(check, fields, count, pct) == [check |-> check, fields |-> fields, count |-> count, pct |-> pct]

Height(d) == Len(d)
null_count(d, field) == Count(d, LAMBDA row : IsNull(row[field]))

missing_cols(sch, expected_cols) == SelectSeq(expected_cols, LAMBDA col : ~HasCol(sch, col))

validate_schema(d, sch, r) ==
    LET missing == missing_cols(sch, required_fields)
    IN  IF missing # <<>>
        THEN add_error(r, Msg("missing_columns", missing, 0, 0))
        ELSE r

required_field_strict_as_warning(d, sch, strict_mode, field, r) ==
    IF ~HasCol(sch, field) THEN r
    ELSE LET n == null_count(d, field)
         IN  IF n > 0
             THEN add_warning(r, Msg("null_values", <<field>>, n, Pct2(n, Height(d))))
             ELSE r

required_field(d, sch, strict_mode, field, r) ==
    IF ~HasCol(sch, field) THEN r
    ELSE LET n == null_count(d, field)
             msg == Msg("null_values", <<field>>, n, Pct2(n, Height(d)))
         IN  IF n > 0
             THEN IF strict_mode THEN add_error(r, msg) ELSE add_warning(r, msg)
             ELSE r

RECURSIVE required_fields_loop(_, _, _, _, _)
required_fields_loop(d, sch, strict_mode, fields, r) ==
    IF fields = <<>> THEN r
    ELSE required_fields_loop(d, sch, strict_mode, Tail(fields),
                              required_field(d, sch, strict_mode, Head(fields), r))

validate_required_fields(d, sch, strict_mode, r) ==
    required_fields_loop(d, sch, strict_mode, required_fields, r)

NumericDtypes == {"Int64", "Int32", "Float64", "Float32"}

data_type(sch, field, r) ==
    IF ~HasCol(sch, field) THEN r
    ELSE IF sch[field] \notin NumericDtypes
         THEN add_warning(r, Msg("not_numeric", <<field, sch[field]>>, 0, 0))
         ELSE r

RECURSIVE data_types_loop(_, _, _)
data_types_loop(sch, fields, r) ==
    IF fields = <<>> THEN r
    ELSE data_types_loop(sch, Tail(fields), data_type(sch, Head(fields), r))

validate_data_types(d, sch, r) == data_types_loop(sch, numeric_fields, r)

\* The three range findings shared by _validate_rent_amounts and
\* _validate_property_sizes: <= 0 is an error, below the minimum and above the
\* maximum are warnings with the percentage of the non-null rows.
range_checks(d, field, lo, hi, tag, r) ==
    LET valid == SelectSeq(d, LAMBDA row : NotNull(row[field]))
        invalid == Count(valid, LAMBDA row : Val(row[field]) <= 0)
        below == Count(valid, LAMBDA row : Val(row[field]) < lo)
        above == Count(valid, LAMBDA row : Val(row[field]) > hi)
        r1 == IF invalid > 0
              THEN add_error(r, Msg(tag \o "_not_positive", <<>>, invalid, 0))
              ELSE r
        r2 == IF below > 0
              THEN add_warning(r1, Msg(tag \o "_below_min", <<>>, below, Pct2(below, Len(valid))))
              ELSE r1
        r3 == IF above > 0
              THEN add_warning(r2, Msg(tag \o "_above_max", <<>>, above, Pct2(above, Len(valid))))
              ELSE r2
    IN  IF valid = <<>> THEN r ELSE r3

validate_rent_amounts(d, sch, r) ==
    IF ~HasCol(sch, "annual_amount") THEN r
    ELSE range_checks(d, "annual_amount", min_annual_rent, max_annual_rent, "rent", r)

validate_property_sizes(d, sch, r) ==
    IF ~HasCol(sch, "actual_area") THEN r
    ELSE range_checks(d, "actual_area", min_property_size, max_property_size, "size", r)

date_field(d, sch, field, r) ==
    IF ~HasCol(sch, field) THEN r
    ELSE LET n == null_count(d, field)
         IN  IF n > 0
             THEN add_warning(r, Msg("null_dates", <<field>>, n, Pct2(n, Height(d))))
             ELSE r

RECURSIVE date_fields_loop(_, _, _, _)
date_fields_loop(d, sch, fields, r) ==
    IF fields = <<>> THEN r
    ELSE date_fields_loop(d, sch, Tail(fields), date_field(d, sch, Head(fields), r))

validate_dates(d, sch, r) == date_fields_loop(d, sch, date_fields, r)

BothDates(row) == NotNull(row.contract_start_date) /\ NotNull(row.contract_end_date)
total_days(row) == Val(row.contract_end_date) - Val(row.contract_start_date)

validate_business_logic(d, sch, r) ==
    IF ~(HasCol(sch, "contract_start_date") /\ HasCol(sch, "contract_end_date")) THEN r
    ELSE
    LET invalid_dates == Count(d, LAMBDA row : BothDates(row) /\
                                   Val(row.contract_end_date) <= Val(row.contract_start_date))
        df_with_duration == SelectSeq(d, BothDates)
        too_short == Count(df_with_duration, LAMBDA row : total_days(row) < min_contract_days)
        too_long == Count(df_with_duration, LAMBDA row : total_days(row) > max_contract_days)
        r1 == IF invalid_dates > 0
              THEN add_error(r, Msg("end_not_after_start", <<>>, invalid_dates, 0))
              ELSE r
        r2 == IF too_short > 0
              THEN add_warning(r1, Msg("too_short", <<>>, too_short, 0))
              ELSE r1
        r3 == IF too_long > 0
              THEN add_warning(r2, Msg("too_long", <<>>, too_long, 0))
              ELSE r2
    IN  r3

(***************************************************************************)
(* Fractions <<n, d>> with d > 0, and polars' quantile with its default    *)
(* interpolation "nearest": the value at index round((n - 1) * q) of the   *)
(* sorted non-null values (0-based, halves rounded away from zero).        *)
(***************************************************************************)
Frac(n, d) == <<n, d>>
FLt(a, b) == a[1] * b[2] < b[1] * a[2]
FLe(a, b) == a[1] * b[2] <= b[1] * a[2]
FEq(a, b) == a[1] * b[2] = b[1] * a[2]

quantile_idx(n, pnum, pden) == (2 * (n - 1) * pnum + pden) \div (2 * pden)

\* The element of rank k (0-based) of the fractions s in ascending order.
Ranked(s, k) ==
    LET i == CHOOSE i \in 1..Len(s) :
                 /\ Cardinality({j \in 1..Len(s) : FLt(s[j], s[i])}) <= k
                 /\ Cardinality({j \in 1..Len(s) : FLe(s[j], s[i])}) > k
    IN  s[i]

quantile(s, pnum, pden) == Ranked(s, quantile_idx(Len(s), pnum, pden))

Column(d, field) == [i \in 1..Len(d) |-> Val(d[i][field])]
AsFracs(s) == [i \in 1..Len(s) |-> Frac(s[i], 1)]

detect_outliers_inclusive(d, sch, r) ==
    IF ~HasCol(sch, "annual_amount") THEN r
    ELSE
    LET valid_rents == SelectSeq(d, LAMBDA row : NotNull(row.annual_amount) /\ Val(row.annual_amount) > 0)
        amounts == AsFracs(Column(valid_rents, "annual_amount"))
        q1 == quantile(amounts, 25, 100)[1]
        q3 == quantile(amounts, 75, 100)[1]
        iqr == q3 - q1
        lower_bound == q1 - 3 * iqr
        upper_bound == q3 + 3 * iqr
        outliers == Count(valid_rents, LAMBDA row : \/ Val(row.annual_amount) <= lower_bound
                                                    \/ Val(row.annual_amount) >= upper_bound)
    IN  IF Len(valid_rents) < 10 THEN r
        ELSE IF outliers > 0
             THEN add_info(r, Msg("outliers", <<>>, outliers, Pct2(outliers, Len(valid_rents))))
             ELSE r

detect_outliers(d, sch, r) ==
    IF ~HasCol(sch, "annual_amount") THEN r
    ELSE
    LET valid_rents == SelectSeq(d, LAMBDA row : NotNull(row.annual_amount) /\ Val(row.annual_amount) > 0)
        amounts == AsFracs(Column(valid_rents, "annual_amount"))
        q1 == quantile(amounts, 25, 100)[1]
        q3 == quantile(amounts, 75, 100)[1]
        iqr == q3 - q1
        lower_bound == q1 - 3 * iqr
        upper_bound == q3 + 3 * iqr
        outliers == Count(valid_rents, LAMBDA row : \/ Val(row.annual_amount) < lower_bound
                                                    \/ Val(row.annual_amount) > upper_bound)
    IN  IF Len(valid_rents) < 10 THEN r
        ELSE IF outliers > 0
             THEN add_info(r, Msg("outliers", <<>>, outliers, Pct2(outliers, Len(valid_rents))))
             ELSE r

run_checks_stop_at_error(d, sch, strict_mode, r0) ==
    LET r1 == validate_schema(d, sch, r0)
        r2 == validate_required_fields(d, sch, strict_mode, r1)
        r3 == validate_data_types(d, sch, r2)
        r4 == IF r3.is_valid THEN validate_rent_amounts(d, sch, r3) ELSE r3
        r5 == IF r4.is_valid THEN validate_property_sizes(d, sch, r4) ELSE r4
        r6 == validate_dates(d, sch, r5)
        r7 == IF r6.is_valid THEN validate_business_logic(d, sch, r6) ELSE r6
        r8 == detect_outliers(d, sch, r7)
    IN  r8

\* The checks of a non-empty dataframe, in the order validate_dataframe calls them.
run_checks(d, sch, strict_mode, r0) ==
    LET r1 == validate_schema(d, sch, r0)
        r2 == validate_required_fields(d, sch, strict_mode, r1)
        r3 == validate_data_types(d, sch, r2)
        r4 == validate_rent_amounts(d, sch, r3)
        r5 == validate_property_sizes(d, sch, r4)
        r6 == validate_dates(d, sch, r5)
        r7 == validate_business_logic(d, sch, r6)
        r8 == detect_outliers(d, sch, r7)
    IN  r8

validate_dataframe_no_return(d, sch, strict_mode) ==
    IF Height(d) = 0
    THEN run_checks(d, sch, strict_mode, add_error(NewValidationResult, Msg("empty", <<>>, 0, 0)))
    ELSE run_checks(d, sch, strict_mode,
                    add_info(NewValidationResult, Msg("validating", <<>>, Height(d), 0)))

validate_dataframe(d, sch, strict_mode) ==
    IF Height(d) = 0
    THEN add_error(NewValidationResult, Msg("empty", <<>>, 0, 0))
    ELSE run_checks(d, sch, strict_mode,
                    add_info(NewValidationResult, Msg("validating", <<>>, Height(d), 0)))

validate_rent_contracts_promoting(d, sch, strict) ==
    LET r == validate_dataframe(d, sch, strict)
    IN  IF strict /\ r.warnings # <<>>
        THEN [r EXCEPT !.errors = @ \o r.warnings, !.warnings = <<>>, !.is_valid = FALSE]
        ELSE r

validate_rent_contracts(d, sch, strict) == validate_dataframe(d, sch, strict)

(***************************************************************************)
(* Datasets.  The full schema is the one RentContractsTransformer reads    *)
(* (rent_contracts_transformer.py: annual_amount and actual_area forced to *)
(* Float64, the two dates parsed to Date).  contract_amount and no_of_prop *)
(* are carried in the schema only: no modelled operation reads their cells.*)
(***************************************************************************)
FullSchema ==
    [contract_id |-> "Int64", contract_start_date |-> "Date", contract_end_date |-> "Date",
     annual_amount |-> "Float64", actual_area |-> "Float64", property_usage_en |-> "String",
     area_name_en |-> "String", ejari_property_type_en |-> "String",
     contract_amount |-> "Float64", no_of_prop |-> "Int64"]

RowFields ==
    {"contract_id", "contract_start_date", "contract_end_date", "annual_amount", "actual_area",
     "property_usage_en", "area_name_en", "ejari_property_type_en"}

StartDay == 19723       \* 2024-01-01, in days since 1970-01-01

GoodRow ==
    [contract_id |-> Some(1), contract_start_date |-> Some(StartDay),
     contract_end_date |-> Some(StartDay + 365), annual_amount |-> Some(120000),
     actual_area |-> Some(1000), property_usage_en |-> Some("Residential"),
     area_name_en |-> Some("Deira"), ejari_property_type_en |-> Some("Flat")]

\* A row of a dataset with schema sch: it has the cells of the columns of sch.
ProjectRow(row, sch) == [f \in RowFields \cap DOMAIN sch |-> row[f]]
Project(rows, sch) == [i \in 1..Len(rows) |-> ProjectRow(rows[i], sch)]

Dropped(sch, cols) ==
    {Restrict(sch, DOMAIN sch \ M) : M \in {M \in SUBSET cols : Cardinality(M) <= MaxMissing}}

\* Rows for the validator: the good row, and the good row with one cell changed
\* to each case a check tells apart.
ValDeviations ==
    {<<"contract_id", Null>>, <<"contract_start_date", Null>>, <<"property_usage_en", Null>>,
     <<"contract_end_date", Null>>, <<"contract_end_date", Some(StartDay)>>,
     <<"contract_end_date", Some(StartDay + 10)>>, <<"contract_end_date", Some(StartDay + 900)>>,
     <<"annual_amount", Null>>, <<"annual_amount", Some(0)>>, <<"annual_amount", Some(5000)>>,
     <<"annual_amount", Some(6000000)>>,
     <<"actual_area", Null>>, <<"actual_area", Some(0)>>, <<"actual_area", Some(100)>>,
     <<"actual_area", Some(60000)>>}
ValRows == {GoodRow} \cup {[GoodRow EXCEPT ![e[1]] = e[2]] : e \in ValDeviations}

ValDroppable ==
    {"contract_id", "contract_start_date", "contract_end_date", "annual_amount", "actual_area",
     "property_usage_en"}
ValSchemas == Dropped(FullSchema, ValDroppable) \cup {[FullSchema EXCEPT !.no_of_prop = "String"]}

Idle ==
    /\ result = NewValidationResult
    /\ results = [strict \in BOOLEAN |-> Null]
    /\ enriched = Null
    /\ ma = Null
    /\ out = Null
    /\ tr = Null
    /\ dl = Null

(***************************************************************************)
(* Specification Spec: validate_rent_contracts on one dataset, in both     *)
(* modes.                                                                  *)
(***************************************************************************)
\* Datasets for the validator: up to MaxRows rows, and one row followed by a
\* block of good rows that brings the sample to the size outlier detection
\* needs, or to one less.
Repeat(row, k) == [i \in 1..k |-> row]
ValBlocks == {9, 10}
\* Samples of 10 and 11 amounts whose first and third quartiles are 50000 and
\* 150000, ending in amounts below, on and above q3 + 3 * iqr = 450000.
OutlierBase == <<20000, 30000, 50000, 50000, 70000, 80000, 90000, 150000, 150000>>
OutlierTails == {400000, 450000, 500000}
OutlierSamples ==
    {[i \in 1..Len(amounts) |-> [GoodRow EXCEPT !.annual_amount = Some(amounts[i])]]
        : amounts \in {OutlierBase \o tail : tail \in BoundedSeq(OutlierTails, 2) \ {<<>>}}}
ValDatasets ==
    BoundedSeq(ValRows, MaxRows) \cup OutlierSamples
        \cup {<<row>> \o Repeat(GoodRow, k) : row \in ValRows, k \in ValBlocks}

Init ==
    /\ \E rows \in ValDatasets, sch \in ValSchemas :
           /\ df = Project(rows, sch)
           /\ schema = sch
    /\ Idle

ValidateRentContracts(strict) ==
    /\ results[strict] = Null
    /\ results' = [results EXCEPT ![strict] = Some(validate_rent_contracts(df, schema, strict))]
    /\ UNCHANGED <<df, schema, result, enriched, ma, out, tr, dl>>

Next == \E strict \in BOOLEAN : ValidateRentContracts(strict)

Spec == Init /\ [][Next]_vars

(***************************************************************************)
(* Specification ResultSpec: one ValidationResult under any sequence of    *)
(* add_error / add_warning / add_info calls.                               *)
(***************************************************************************)
Messages == {Msg("rent_not_positive", <<>>, 1, 0), Msg("null_dates", <<"contract_end_date">>, 1, 5000)}

Calls(r) == Len(r.errors) + Len(r.warnings) + Len(r.info)

ResultInit ==
    /\ df = <<>>
    /\ schema = FullSchema
    /\ Idle

AddError(message) ==
    /\ Calls(result) < MaxMessages
    /\ result' = add_error(result, message)
    /\ UNCHANGED <<df, schema, results, enriched, ma, out, tr, dl>>

AddWarning(message) ==
    /\ Calls(result) < MaxMessages
    /\ result' = add_warning(result, message)
    /\ UNCHANGED <<df, schema, results, enriched, ma, out, tr, dl>>

AddInfo(message) ==
    /\ Calls(result) < MaxMessages
    /\ result' = add_info(result, message)
    /\ UNCHANGED <<df, schema, results, enriched, ma, out, tr, dl>>

ResultNext ==
    \E message \in Messages :
        \/ AddError(message)
        \/ AddWarning(message)
        \/ AddInfo(message)

ResultSpec == ResultInit /\ [][ResultNext]_vars

(***************************************************************************)
(* Strings and dates, as polars computes them.                             *)
(***************************************************************************)
UpperLetters == "ABCDEFGHIJKLMNOPQRSTUVWXYZ"
LowerLetters == "abcdefghijklmnopqrstuvwxyz"
CharAt(str, i) == SubSeq(str, i, i)

lower_char(c) ==
    IF \E i \in 1..26 : CharAt(UpperLetters, i) = c
    THEN CharAt(LowerLetters, CHOOSE i \in 1..26 : CharAt(UpperLetters, i) = c)
    ELSE c

RECURSIVE to_lowercase(_)
to_lowercase(str) ==
    IF str = "" THEN "" ELSE lower_char(CharAt(str, 1)) \o to_lowercase(SubSeq(str, 2, Len(str)))

RECURSIVE strip_start(_)
strip_start(str) ==
    IF str # "" /\ CharAt(str, 1) = " " THEN strip_start(SubSeq(str, 2, Len(str))) ELSE str

RECURSIVE strip_end(_)
strip_end(str) ==
    IF str # "" /\ CharAt(str, Len(str)) = " " THEN strip_end(SubSeq(str, 1, Len(str) - 1)) ELSE str

strip_chars(str) == strip_end(strip_start(str))

\* str.contains("(?i)pattern") for a pattern of plain letters.
contains_ci(str, pattern) ==
    \E i \in 1..(Len(str) - Len(pattern) + 1) :
        to_lowercase(SubSeq(str, i, i + Len(pattern) - 1)) = pattern

\* Year, month and day of a date given in days since 1970-01-01.
civil(z) ==
    LET z1 == z + 719468
        era == z1 \div 146097
        doe == z1 - era * 146097
        yoe == (doe - doe \div 1460 + doe \div 36524 - doe \div 146096) \div 365
        doy == doe - (365 * yoe + yoe \div 4 - yoe \div 100)
        mp == (5 * doy + 2) \div 153
        d == doy - (153 * mp + 2) \div 5 + 1
        m == IF mp < 10 THEN mp + 3 ELSE mp - 9
        y == yoe + era * 400 + (IF m <= 2 THEN 1 ELSE 0)
    IN  [year |-> y, month |-> m, day |-> d]

dt_year(z) == civil(z).year
dt_month(z) == civil(z).month
dt_quarter(z) == (civil(z).month + 2) \div 3
dt_weekday(z) == ((z + 3) % 7) + 1      \* ISO: Monday = 1 ... Sunday = 7

(***************************************************************************)
(* RentContractsEnricher (enrichment.py).  A frame is the rows and the     *)
(* schema of a DataFrame; with_columns adds a column, or replaces the one  *)
(* of the same name, and keeps the rows and their order.                   *)
(***************************************************************************)
Frame(rows, sch) == [rows |-> rows, schema |-> sch]
EmptyFrame == Frame(<<>>, <<>>)                 \* pl.DataFrame()

with_columns(f, name, dtype, Expr(_)) ==
    Frame([i \in 1..Len(f.rows) |-> (name :> Expr(f.rows[i])) @@ f.rows[i]],
          (name :> dtype) @@ f.schema)

Positive(c) == NotNull(c) /\ Val(c) > 0

psf(row) == Frac(Val(row.annual_amount), Val(row.actual_area))

price_per_sqft_unguarded(row) ==
    IF NotNull(row.actual_area) /\ NotNull(row.annual_amount) /\ Val(row.actual_area) # 0
    THEN Some(psf(row))
    ELSE Null

price_per_sqft(row) ==
    IF Positive(row.actual_area) /\ Positive(row.annual_amount)
    THEN Some(psf(row))
    ELSE Null

add_psf(f) ==
    IF HasCol(f.schema, "actual_area") /\ HasCol(f.schema, "annual_amount")
    THEN with_columns(f, "price_per_sqft", "Float64", price_per_sqft)
    ELSE f

\* AREA_CLASSIFICATIONS and get_area_tier of config.py.  _add_area_tier does
\* not use them: it sets the literal "Mid-Tier".
AREA_CLASSIFICATIONS ==
    [name \in {"Downtown Dubai", "Dubai Marina", "Palm Jumeirah", "Emirates Hills",
               "Jumeirah Beach Residence", "Business Bay", "Dubai Hills Estate",
               "Arabian Ranches"} |-> "Premium"]
    @@ [name \in {"Jumeirah Village Circle", "Jumeirah Village Triangle", "Dubai Sports City",
                  "Motor City", "The Greens", "The Views", "Discovery Gardens", "Mirdif"}
            |-> "Mid-Tier"]
    @@ [name \in {"International City", "Deira", "Bur Dubai", "Al Nahda", "Al Qusais"}
            |-> "Budget"]
    @@ [name \in {"Dubai South", "Dubailand", "Dubai Production City"} |-> "Emerging"]

get_area_tier(area_name) ==
    IF area_name \in DOMAIN AREA_CLASSIFICATIONS THEN AREA_CLASSIFICATIONS[area_name]
    ELSE "Mid-Tier"

add_area_tier(f) ==
    IF HasCol(f.schema, "area_name_en")
    THEN with_columns(f, "area_tier", "String", LAMBDA row : Some("Mid-Tier"))
    ELSE f

\* PROPERTY_TYPE_MAPPINGS and normalize_property_type of config.py, with
\* str.title(): a letter after a non-letter in upper case, every other letter
\* in lower case.  _normalize_property_types does not use them.
PROPERTY_TYPE_MAPPINGS ==
    [alias \in {"apt", "apartment", "flat"} |-> "Apartment"]
    @@ [alias \in {"villa"} |-> "Villa"]
    @@ [alias \in {"townhouse", "town house"} |-> "Townhouse"]
    @@ [alias \in {"penthouse"} |-> "Penthouse"]
    @@ [alias \in {"studio"} |-> "Studio"]
    @@ [alias \in {"office"} |-> "Office"]
    @@ [alias \in {"shop", "retail"} |-> "Retail"]
    @@ [alias \in {"warehouse"} |-> "Warehouse"]
    @@ [alias \in {"land", "plot"} |-> "Land"]

IsLetter(c) == \E i \in 1..26 : CharAt(UpperLetters, i) = c \/ CharAt(LowerLetters, i) = c

upper_char(c) ==
    IF \E i \in 1..26 : CharAt(LowerLetters, i) = c
    THEN CharAt(UpperLetters, CHOOSE i \in 1..26 : CharAt(LowerLetters, i) = c)
    ELSE c

RECURSIVE title_from(_, _)
title_from(str, cased) ==
    IF str = "" THEN ""
    ELSE LET c == CharAt(str, 1)
         IN  (IF cased THEN lower_char(c) ELSE upper_char(c))
                 \o title_from(SubSeq(str, 2, Len(str)), IsLetter(c))

title(str) == title_from(str, FALSE)

normalize_property_type(property_type) ==
    IF property_type = "" THEN "Unknown"
    ELSE LET normalized == strip_chars(to_lowercase(property_type))
         IN  IF normalized \in DOMAIN PROPERTY_TYPE_MAPPINGS
             THEN PROPERTY_TYPE_MAPPINGS[normalized]
             ELSE title(property_type)

normalize_property_types(f) ==
    IF HasCol(f.schema, "ejari_property_type_en")
    THEN with_columns(f, "property_type_normalized", "String",
             LAMBDA row : IF IsNull(row.ejari_property_type_en) THEN Null
                          ELSE Some(strip_chars(to_lowercase(Val(row.ejari_property_type_en)))))
    ELSE f

OfDate(row, Part(_)) ==
    IF IsNull(row.contract_start_date) THEN Null ELSE Some(Part(Val(row.contract_start_date)))

\* when(month.is_in(...)): a null month makes every condition null, which a
\* when/then chain takes as not met.
season_of_known_month(row) ==
    LET month == row.contract_month
    IN  IF IsNull(month) THEN "Unknown"
        ELSE IF Val(month) \in {12, 1, 2} THEN "Winter"
        ELSE IF Val(month) \in {3, 4, 5} THEN "Spring"
        ELSE IF Val(month) \in {6, 7, 8} THEN "Summer"
        ELSE "Fall"

season(row) ==
    LET month == row.contract_month
    IN  IF NotNull(month) /\ Val(month) \in {12, 1, 2} THEN "Winter"
        ELSE IF NotNull(month) /\ Val(month) \in {3, 4, 5} THEN "Spring"
        ELSE IF NotNull(month) /\ Val(month) \in {6, 7, 8} THEN "Summer"
        ELSE "Fall"

add_temporal_features(f) ==
    IF HasCol(f.schema, "contract_start_date")
    THEN LET f1 == with_columns(f, "contract_year", "Int32", LAMBDA row : OfDate(row, dt_year))
             f2 == with_columns(f1, "contract_quarter", "Int8", LAMBDA row : OfDate(row, dt_quarter))
             f3 == with_columns(f2, "contract_month", "Int8", LAMBDA row : OfDate(row, dt_month))
             f4 == with_columns(f3, "contract_weekday", "Int8", LAMBDA row : OfDate(row, dt_weekday))
         IN  with_columns(f4, "contract_season", "String", LAMBDA row : Some(season(row)))
    ELSE f

duration_category_inclusive(row) ==
    LET days == row.contract_duration_days
    IN  IF NotNull(days) /\ Val(days) <= 180 THEN "Short-term"
        ELSE IF NotNull(days) /\ Val(days) <= 365 THEN "Medium-term"
        ELSE IF NotNull(days) /\ Val(days) > 365 THEN "Long-term"
        ELSE "Unknown"

duration_category(row) ==
    LET days == row.contract_duration_days
    IN  IF NotNull(days) /\ Val(days) < 180 THEN "Short-term"
        ELSE IF NotNull(days) /\ Val(days) < 365 THEN "Medium-term"
        ELSE IF NotNull(days) /\ Val(days) >= 365 THEN "Long-term"
        ELSE "Unknown"

add_contract_duration(f) ==
    IF HasCol(f.schema, "contract_start_date") /\ HasCol(f.schema, "contract_end_date")
    THEN LET f1 == with_columns(f, "contract_duration_days", "Int64",
                       LAMBDA row : IF BothDates(row) THEN Some(total_days(row)) ELSE Null)
         IN  with_columns(f1, "contract_duration_category", "String",
                          LAMBDA row : Some(duration_category(row)))
    ELSE f

FracColumn(rows, field) == [i \in 1..Len(rows) |-> Val(rows[i][field])]

\* (psf >= psf_threshold) | (amount >= rent_threshold) under when(): true when
\* either comparison is true; a null operand makes its comparison null, and a
\* null or false disjunction takes the otherwise branch.
luxury_flag_both(row, psf_threshold, rent_threshold) ==
    /\ NotNull(row.price_per_sqft) /\ FLe(psf_threshold, Val(row.price_per_sqft))
    /\ NotNull(row.annual_amount) /\ FLe(rent_threshold, Frac(Val(row.annual_amount), 1))

luxury_flag(row, psf_threshold, rent_threshold) ==
    \/ NotNull(row.price_per_sqft) /\ FLe(psf_threshold, Val(row.price_per_sqft))
    \/ NotNull(row.annual_amount) /\ FLe(rent_threshold, Frac(Val(row.annual_amount), 1))

flag_luxury_properties_on_valid(f) ==
    IF HasCol(f.schema, "price_per_sqft") /\ HasCol(f.schema, "annual_amount")
    THEN LET valid_data == SelectSeq(f.rows, LAMBDA row : NotNull(row.price_per_sqft) /\
                                                         NotNull(row.annual_amount))
             psf_threshold == quantile(FracColumn(valid_data, "price_per_sqft"),
                                       luxury_psf_percentile, 100)
             rent_threshold == quantile(AsFracs(Column(valid_data, "annual_amount")),
                                        luxury_rent_percentile, 100)
         IN  IF Len(valid_data) > 0
             THEN with_columns(Frame(valid_data, f.schema), "is_luxury", "Boolean",
                      LAMBDA row : Some(luxury_flag(row, psf_threshold, rent_threshold)))
             ELSE with_columns(f, "is_luxury", "Boolean", LAMBDA row : Some(FALSE))
    ELSE f

flag_luxury_properties(f) ==
    IF HasCol(f.schema, "price_per_sqft") /\ HasCol(f.schema, "annual_amount")
    THEN LET valid_data == SelectSeq(f.rows, LAMBDA row : NotNull(row.price_per_sqft) /\
                                                         NotNull(row.annual_amount))
             psf_threshold == quantile(FracColumn(valid_data, "price_per_sqft"),
                                       luxury_psf_percentile, 100)
             rent_threshold == quantile(AsFracs(Column(valid_data, "annual_amount")),
                                        luxury_rent_percentile, 100)
         IN  IF Len(valid_data) > 0
             THEN with_columns(f, "is_luxury", "Boolean",
                      LAMBDA row : Some(luxury_flag(row, psf_threshold, rent_threshold)))
             ELSE with_columns(f, "is_luxury", "Boolean", LAMBDA row : Some(FALSE))
    ELSE f

usage_category(row) ==
    LET usage == row.property_usage_en
    IN  IF NotNull(usage) /\ contains_ci(Val(usage), "residential") THEN "Residential"
        ELSE IF NotNull(usage) /\ contains_ci(Val(usage), "commercial") THEN "Commercial"
        ELSE "Other"

add_usage_category(f) ==
    IF HasCol(f.schema, "property_usage_en")
    THEN with_columns(f, "usage_category", "String", LAMBDA row : Some(usage_category(row)))
    ELSE f

enrich(f) ==
    add_usage_category(
        flag_luxury_properties(
            add_contract_duration(
                add_temporal_features(
                    normalize_property_types(
                        add_area_tier(
                            add_psf(f)))))))

(***************************************************************************)
(* Specification EnrichSpec: RentContractsEnricher(df).enrich() on one     *)
(* dataset.                                                                *)
(***************************************************************************)
EnrDeviations ==
    {<<"annual_amount", Null>>, <<"annual_amount", Some(0)>>, <<"annual_amount", Some(0 - 5)>>,
     <<"annual_amount", Some(50000)>>,
     <<"actual_area", Null>>, <<"actual_area", Some(0)>>, <<"actual_area", Some(900)>>,
     <<"contract_end_date", Null>>, <<"contract_end_date", Some(StartDay + 179)>>,
     <<"contract_end_date", Some(StartDay + 180)>>, <<"contract_end_date", Some(StartDay + 364)>>,
     <<"contract_end_date", Some(StartDay + 730)>>,
     <<"contract_start_date", Null>>, <<"contract_start_date", Some(StartDay + 74)>>,
     <<"contract_start_date", Some(StartDay + 182)>>, <<"contract_start_date", Some(StartDay + 283)>>,
     <<"area_name_en", Some("Downtown Dubai")>>,
     <<"ejari_property_type_en", Some("apt")>>, <<"ejari_property_type_en", Some(" FLAT ")>>,
     <<"ejari_property_type_en", Some("hotel apartment")>>,
     <<"property_usage_en", Null>>, <<"property_usage_en", Some("Commercial - Office")>>}
EnrRows == {GoodRow} \cup {[GoodRow EXCEPT ![e[1]] = e[2]] : e \in EnrDeviations}

EnrDroppable ==
    {"contract_start_date", "contract_end_date", "annual_amount", "actual_area",
     "property_usage_en", "area_name_en", "ejari_property_type_en"}
EnrSchemas == {FullSchema} \cup {Restrict(FullSchema, DOMAIN FullSchema \ {c}) : c \in EnrDroppable}

EnrichInit ==
    /\ \E rows \in BoundedSeq(EnrRows, MaxRows), sch \in EnrSchemas :
           /\ df = Project(rows, sch)
           /\ schema = sch
    /\ Idle

Enrich ==
    /\ enriched = Null
    /\ enriched' = Some(enrich(Frame(df, schema)))
    /\ UNCHANGED <<df, schema, result, results, ma, out, tr, dl>>

EnrichNext == Enrich

EnrichSpec == EnrichInit /\ [][EnrichNext]_vars

(***************************************************************************)
(* MarketAnalytics (market_analytics.py).  A call returns a frame or       *)
(* raises; group_by yields its groups in no particular order, so a sorted  *)
(* aggregate is any ordering of the groups that the sort key allows.       *)
(***************************************************************************)
Returned(f) == [raised |-> "", detail |-> <<>>, frame |-> f]
RaisedWith(exception, detail) == [raised |-> exception, detail |-> detail, frame |-> EmptyFrame]
Raised(exception) == RaisedWith(exception, <<>>)
Call(op, outcome) == [op |-> op, raised |-> outcome.raised, detail |-> outcome.detail,
                      frame |-> outcome.frame]
CallWith(op, args, outcome) == [args |-> args] @@ Call(op, outcome)

validate_data_first_missing(f) ==
    LET missing == missing_cols(f.schema, <<"annual_amount", "property_usage_en">>)
    IN  IF missing = <<>> THEN <<>> ELSE <<Head(missing)>>

validate_data(f) == missing_cols(f.schema, <<"annual_amount", "property_usage_en">>)

filter(f, Test(_)) == Frame(SelectSeq(f.rows, Test), f.schema)

mean(values) == Frac(SumSeq(values), Len(values))
Smallest(values) == CHOOSE v \in Range(values) : \A w \in Range(values) : v <= w
Largest(values) == CHOOSE v \in Range(values) : \A w \in Range(values) : v >= w

RECURSIVE GCD(_, _)
GCD(a, b) == IF b = 0 THEN a ELSE GCD(b, a % b)
Reduced(n, d) == Frac(n \div GCD(n, d), d \div GCD(n, d))
FAdd(a, b) == Reduced(a[1] * b[2] + b[1] * a[2], a[2] * b[2])

\* The sum of non-negative fractions, in lowest terms.
RECURSIVE FSum(_)
FSum(fs) == IF fs = <<>> THEN Frac(0, 1) ELSE FAdd(Reduced(Head(fs)[1], Head(fs)[2]), FSum(Tail(fs)))

mean_fracs(fs) == Reduced(FSum(fs)[1], FSum(fs)[2] * Len(fs))

\* median: the middle value, or the mean of the two middle values.
median(fs) ==
    LET n == Len(fs)
        lo == Ranked(fs, (n - 1) \div 2)
        hi == Ranked(fs, n \div 2)
    IN  Frac(lo[1] * hi[2] + hi[1] * lo[2], 2 * lo[2] * hi[2])

\* The rent aggregates every grouping computes.
rent_stats(rows, count_name) ==
    LET amounts == Column(rows, "annual_amount")
    IN  (count_name :> Some(Len(rows))) @@
        [avg_rent |-> Some(mean(amounts)), median_rent |-> Some(median(AsFracs(amounts))),
         min_rent |-> Some(Smallest(amounts)), max_rent |-> Some(Largest(amounts))]

GroupKeys(rows, by) == {rows[i][by] : i \in 1..Len(rows)}
GroupRows(rows, by, key) == SelectSeq(rows, LAMBDA row : row[by] = key)

\* The orderings of the finite set of group rows S by descending count.
SortedDescending(S, count_name) ==
    {order \in [1..Cardinality(S) -> S] :
        /\ \A i, j \in 1..Cardinality(S) : i # j => order[i] # order[j]
        /\ \A i \in 1..(Cardinality(S) - 1) :
               Val(order[i][count_name]) >= Val(order[i + 1][count_name])}

share_as_fraction(row, count_name, total_contracts) ==
    Some(Frac(Val(row[count_name]), total_contracts))

share(row, count_name, total_contracts) ==
    Some(Frac(Val(row[count_name]) * 100, total_contracts))

with_market_share(rows, count_name) ==
    LET total_contracts == SumSeq([i \in 1..Len(rows) |-> Val(rows[i][count_name])])
    IN  [i \in 1..Len(rows) |-> ("market_share_pct" :> share(rows[i], count_name, total_contracts))
                                @@ rows[i]]

StatsSchema(by, count_name) ==
    (by :> "String") @@ (count_name :> "UInt32") @@
    [avg_rent |-> "Float64", median_rent |-> "Float64", min_rent |-> "Float64",
     max_rent |-> "Float64"]

\* is_residential(pl.col("property_usage_en")) evaluates `usage in
\* RESIDENTIAL_USAGE` with usage a polars expression: the list membership test
\* compares the first string of the list with the expression, Expr.__eq__
\* answers with an expression, and taking its truth value raises TypeError
\* (Expr.__bool__).  The filter of calculate_psf_metrics is never built.
usage_bounds_filter(psf_data) == Raised("TypeError")

calculate_psf_metrics(f) ==
    IF ~HasCol(f.schema, "actual_area") THEN Returned(EmptyFrame)
    ELSE LET valid_data == filter(f, LAMBDA row : Positive(row.actual_area) /\
                                                   Positive(row.annual_amount))
             psf_data == with_columns(valid_data, "psf", "Float64", LAMBDA row : Some(psf(row)))
         IN  IF Len(valid_data.rows) = 0 THEN Returned(EmptyFrame)
             ELSE usage_bounds_filter(psf_data)

area_stats_row(rows, area_column, key) ==
    LET group == GroupRows(rows, area_column, key)
    IN  (area_column :> key) @@ rent_stats(group, "contract_count") @@
        [avg_psf |-> Some(mean_fracs(FracColumn(group, "psf"))),
         median_psf |-> Some(median(FracColumn(group, "psf"))),
         avg_area |-> Some(mean(Column(group, "actual_area")))]

\* The possible results of analyze_by_area.
analyze_by_area(f, area_column) ==
    IF ~HasCol(f.schema, area_column) THEN {Returned(EmptyFrame)}
    ELSE LET psf_data == calculate_psf_metrics(f)
             rows == psf_data.frame.rows
             groups == {area_stats_row(rows, area_column, key) : key \in GroupKeys(rows, area_column)}
             kept == {g \in groups : Val(g.contract_count) >= min_area_sample_size}
         IN  IF psf_data.raised # "" THEN {psf_data}
             ELSE IF Len(rows) = 0 THEN {Returned(EmptyFrame)}
             ELSE {Returned(Frame(order, StatsSchema(area_column, "contract_count")))
                      : order \in SortedDescending(kept, "contract_count")}

type_column(f) ==
    IF HasCol(f.schema, "ejari_property_type_en") THEN "ejari_property_type_en"
    ELSE IF HasCol(f.schema, "ejari_property_sub_type_en") THEN "ejari_property_sub_type_en"
    ELSE ""

grouped_rent_stats(rows, by, count_name) ==
    LET groups == {(by :> key) @@ rent_stats(GroupRows(rows, by, key), count_name)
                      : key \in GroupKeys(rows, by)}
    IN  SortedDescending(groups, count_name)

analyze_by_property_type(f) ==
    LET type_col == type_column(f)
        valid_data == filter(f, LAMBDA row : Positive(row.annual_amount))
    IN  IF type_col = "" THEN {Returned(EmptyFrame)}
        ELSE IF Len(valid_data.rows) = 0 THEN {Returned(EmptyFrame)}
        ELSE {Returned(Frame(with_market_share(order, "contract_count"),
                             ("market_share_pct" :> "Float64") @@ StatsSchema(type_col, "contract_count")))
                 : order \in grouped_rent_stats(valid_data.rows, type_col, "contract_count")}

segment_by_usage(f) ==
    LET valid_data == filter(f, LAMBDA row : Positive(row.annual_amount))
    IN  {Returned(Frame(with_market_share(order, "contract_count"),
                        ("market_share_pct" :> "Float64") @@ StatsSchema("property_usage_en", "contract_count")))
            : order \in grouped_rent_stats(valid_data.rows, "property_usage_en", "contract_count")}

identify_luxury_properties(f) ==
    LET psf_data == calculate_psf_metrics(f)
        rows == psf_data.frame.rows
        psf_threshold == quantile(FracColumn(rows, "psf"), luxury_psf_percentile, 100)
        rent_threshold == quantile(AsFracs(Column(rows, "annual_amount")), luxury_rent_percentile, 100)
    IN  IF psf_data.raised # "" THEN psf_data
        ELSE IF Len(rows) = 0 THEN Returned(EmptyFrame)
        ELSE Returned(with_columns(psf_data.frame, "is_luxury", "Boolean",
                 LAMBDA row : Some(\/ FLe(psf_threshold, Val(row.psf))
                                   \/ FLe(rent_threshold, Frac(Val(row.annual_amount), 1)))))

\* The possible results of identify_high_demand_areas.
identify_high_demand_areas(f, area_column, top_n) ==
    {IF area_stats.raised # "" THEN area_stats
     ELSE IF Len(area_stats.frame.rows) = 0 THEN Returned(EmptyFrame)
     ELSE LET rows == area_stats.frame.rows
              total_contracts == SumSeq([i \in 1..Len(rows) |-> Val(rows[i].contract_count)])
              limit == IF top_n < Len(rows) THEN top_n ELSE Len(rows)
              top_areas == SubSeq(rows, 1, limit)
          IN  Returned(Frame([i \in 1..limit |->
                                 ("market_share_pct" :> share(top_areas[i], "contract_count",
                                                              total_contracts)) @@ top_areas[i]],
                             ("market_share_pct" :> "Float64") @@ area_stats.frame.schema))
        : area_stats \in analyze_by_area(f, area_column)}

\* dt.truncate("1mo"): the first day of the month of the date.
truncate_1mo(z) == z - (civil(z).day - 1)

period_col(period, z) ==
    CASE period = "monthly" -> truncate_1mo(z)
      [] period = "quarterly" -> dt_quarter(z)
      [] period = "yearly" -> dt_year(z)

trend_row(rows, key) ==
    LET group == SelectSeq(rows, LAMBDA row : row.period = key)
        amounts == Column(group, "annual_amount")
    IN  [period |-> key, contract_count |-> Some(Len(group)),
         avg_rent |-> Some(mean(amounts)), median_rent |-> Some(median(AsFracs(amounts)))]

\* sort("period"): the rows of the finite set S by ascending period.
SortedByPeriod(S) ==
    CHOOSE order \in [1..Cardinality(S) -> S] :
        \A i \in 1..(Cardinality(S) - 1) : Val(order[i].period) < Val(order[i + 1].period)

calculate_rental_trends(f, date_column, period) ==
    IF ~HasCol(f.schema, date_column) THEN Returned(EmptyFrame)
    ELSE LET valid_data == filter(f, LAMBDA row : NotNull(row[date_column]) /\
                                                   Positive(row.annual_amount))
             with_period == [i \in 1..Len(valid_data.rows) |->
                                [period |-> Some(period_col(period, Val(valid_data.rows[i][date_column])))]
                                @@ valid_data.rows[i]]
             trend_data == {trend_row(with_period, key) : key \in GroupKeys(with_period, "period")}
         IN  IF Len(valid_data.rows) = 0 THEN Returned(EmptyFrame)
             ELSE IF period \notin {"monthly", "quarterly", "yearly"} THEN Returned(EmptyFrame)
             ELSE Returned(Frame(SortedByPeriod(trend_data),
                                 [period |-> IF period = "monthly" THEN "Date" ELSE IF period = "quarterly" THEN "Int8" ELSE "Int32",
                                  contract_count |-> "UInt32", avg_rent |-> "Float64",
                                  median_rent |-> "Float64"]))

\* The possible results of generate_market_summary: the summary dictionary,
\* with the keys the code sets.
generate_market_summary(f) ==
    LET valid_rents == filter(f, LAMBDA row : Positive(row.annual_amount))
        amounts == Column(valid_rents.rows, "annual_amount")
        rent_summary ==
            IF Len(valid_rents.rows) > 0
            THEN [total_contracts |-> Len(f.rows), avg_rent |-> mean(amounts),
                  median_rent |-> median(AsFracs(amounts)), min_rent |-> Smallest(amounts),
                  max_rent |-> Largest(amounts)]
            ELSE <<>>
        psf_data == calculate_psf_metrics(f)
        psf_summary ==
            IF Len(psf_data.frame.rows) > 0
            THEN [avg_psf |-> mean_fracs(FracColumn(psf_data.frame.rows, "psf")),
                  median_psf |-> median(FracColumn(psf_data.frame.rows, "psf"))]
            ELSE <<>>
    IN  IF psf_data.raised # "" THEN {psf_data}
        ELSE {Returned(rent_summary @@ psf_summary @@
                       (IF Len(usage_stats.frame.rows) > 0
                        THEN [usage_breakdown |-> usage_stats.frame.rows] ELSE <<>>))
                 : usage_stats \in segment_by_usage(f)}

(***************************************************************************)
(* PropertyUsage.transform (property_usage.py): the report written to the  *)
(* output file.  Left out: std_rent (a square root) and report_date (the   *)
(* day of the run).                                                        *)
(***************************************************************************)
UsageRows(f, Test(_)) ==
    SelectSeq(f.rows, LAMBDA row : NotNull(row.property_usage_en) /\ Test(row))

size_stats(f, key) ==
    LET group == GroupRows(UsageRows(f, LAMBDA row : Positive(row.actual_area)),
                           "property_usage_en", key)
    IN  IF group = <<>>
        THEN [avg_area_sqft |-> Null, median_area_sqft |-> Null]
        ELSE [avg_area_sqft |-> Some(mean(Column(group, "actual_area"))),
              median_area_sqft |-> Some(median(AsFracs(Column(group, "actual_area"))))]

psf_stats(f, key) ==
    LET group == GroupRows(UsageRows(f, LAMBDA row : Positive(row.actual_area) /\
                                                      Positive(row.annual_amount)),
                           "property_usage_en", key)
        psfs == [i \in 1..Len(group) |-> psf(group[i])]
    IN  IF group = <<>>
        THEN [avg_psf |-> Null, median_psf |-> Null]
        ELSE [avg_psf |-> Some(mean_fracs(psfs)), median_psf |-> Some(median(psfs))]

usage_report_row(f, row) ==
    IF HasCol(f.schema, "actual_area")
    THEN row @@ size_stats(f, row.property_usage_en) @@ psf_stats(f, row.property_usage_en)
    ELSE row

property_usage_transform(f) ==
    IF validate_data(f) # <<>> THEN {Raised("ColumnNotFoundError")}
    ELSE
    LET kept == UsageRows(f, LAMBDA row : Positive(row.annual_amount))
        groups == {("property_usage_en" :> key) @@
                       rent_stats(GroupRows(kept, "property_usage_en", key), "no_of_contracts")
                      : key \in GroupKeys(kept, "property_usage_en")}
        unordered == CHOOSE order \in SortedDescending(groups, "no_of_contracts") : TRUE
        shared == with_market_share(unordered, "no_of_contracts")
        joined == {usage_report_row(f, shared[i]) : i \in 1..Len(shared)}
        joined_schema ==
            IF HasCol(f.schema, "actual_area")
            THEN [avg_area_sqft |-> "Float64", median_area_sqft |-> "Float64",
                  avg_psf |-> "Float64", median_psf |-> "Float64"]
            ELSE <<>>
    IN  {Returned(Frame(order, ("market_share_pct" :> "Float64") @@ joined_schema @@
                               StatsSchema("property_usage_en", "no_of_contracts")))
            : order \in SortedDescending(joined, "no_of_contracts")}

(***************************************************************************)
(* Specification AnalyticsSpec: a MarketAnalytics object built on one      *)
(* dataset and its operations called in any order, any number of times;    *)
(* the usage report of the same dataset.                                   *)
(***************************************************************************)
AnaDeviations ==
    {<<"annual_amount", Null>>, <<"annual_amount", Some(0)>>, <<"annual_amount", Some(50000)>>,
     <<"annual_amount", Some(12000)>>,
     <<"actual_area", Null>>, <<"actual_area", Some(0)>>, <<"actual_area", Some(100)>>,
     <<"property_usage_en", Null>>, <<"property_usage_en", Some("Commercial")>>,
     <<"property_usage_en", Some("Industrial")>>,
     <<"area_name_en", Null>>, <<"area_name_en", Some("Downtown Dubai")>>,
     <<"ejari_property_type_en", Null>>, <<"ejari_property_type_en", Some("Villa")>>,
     <<"contract_start_date", Null>>, <<"contract_start_date", Some(StartDay + 100)>>}
AnaRows == {GoodRow} \cup {[GoodRow EXCEPT ![e[1]] = e[2]] : e \in AnaDeviations}

\* Up to MaxRows rows, the three-row scenario, and one row followed by a block of good rows that
\* brings an area to the minimum sample size, or to one less.
AnaBlocks == {min_area_sample_size - 1, min_area_sample_size}
\* The three rows (120000, 1000, "Residential"), (50000, null, "Commercial"),
\* (null, 800, "Residential").
ThreeRows ==
    <<GoodRow,
      [GoodRow EXCEPT !.annual_amount = Some(50000), !.actual_area = Null,
                      !.property_usage_en = Some("Commercial")],
      [GoodRow EXCEPT !.annual_amount = Null, !.actual_area = Some(800)]>>
AnaDatasets ==
    BoundedSeq(AnaRows, MaxRows) \cup {ThreeRows}
        \cup {<<row>> \o Repeat(GoodRow, k) : row \in AnaRows, k \in AnaBlocks}

AnaDroppable ==
    {"annual_amount", "property_usage_en", "actual_area", "area_name_en", "ejari_property_type_en",
     "contract_start_date"}
AnaSchemas ==
    Dropped(FullSchema, AnaDroppable)
        \cup {Restrict(FullSchema, DOMAIN FullSchema \ {"annual_amount", "property_usage_en"})}

Object(f, source) == [data |-> f, source |-> source]
Data == Val(ma).data

AnalyticsInit ==
    /\ \E rows \in AnaDatasets, sch \in AnaSchemas :
           /\ df = Project(rows, sch)
           /\ schema = sch
    /\ Idle

\* MarketAnalytics(data): __init__ and _validate_data.
construct(f, source) ==
    IF validate_data(f) # <<>>
    THEN /\ out' = Some(CallWith("__init__", <<f>>, RaisedWith("ValueError", validate_data(f))))
         /\ UNCHANGED ma
    ELSE /\ ma' = Some(Object(f, source))
         /\ out' = Some(CallWith("__init__", <<f>>, Returned(f)))

Construct ==
    /\ ma = Null /\ out = Null
    /\ construct(Frame(df, schema), "dataset")
    /\ UNCHANGED <<df, schema, result, results, enriched, tr, dl>>

\* MarketAnalytics(...) on the frame identify_luxury_properties returned.
ConstructOnLuxuryOutput ==
    /\ out # Null
    /\ Val(out).op = "identify_luxury_properties" /\ Val(out).raised = ""
    /\ construct(Val(out).frame, "luxury_output")
    /\ UNCHANGED <<df, schema, result, results, enriched, tr, dl>>

CalculatePsfMetrics ==
    /\ ma # Null
    /\ out' = Some(Call("calculate_psf_metrics", calculate_psf_metrics(Data)))
    /\ UNCHANGED <<df, schema, result, results, enriched, ma, tr, dl>>

AnalyzeByArea ==
    /\ ma # Null
    /\ \E o \in analyze_by_area(Data, "area_name_en") : out' = Some(Call("analyze_by_area", o))
    /\ UNCHANGED <<df, schema, result, results, enriched, ma, tr, dl>>

AnalyzeByPropertyTypeInPlace ==
    /\ ma # Null
    /\ \E o \in analyze_by_property_type(Data) : out' = Some(Call("analyze_by_property_type", o))
    /\ ma' = Some(Object(filter(Data, LAMBDA row : Positive(row.annual_amount)), Val(ma).source))
    /\ UNCHANGED <<df, schema, result, results, enriched, tr, dl>>

AnalyzeByPropertyType ==
    /\ ma # Null
    /\ \E o \in analyze_by_property_type(Data) : out' = Some(Call("analyze_by_property_type", o))
    /\ UNCHANGED <<df, schema, result, results, enriched, ma, tr, dl>>

SegmentByUsage ==
    /\ ma # Null
    /\ \E o \in segment_by_usage(Data) : out' = Some(Call("segment_by_usage", o))
    /\ UNCHANGED <<df, schema, result, results, enriched, ma, tr, dl>>

IdentifyLuxuryProperties ==
    /\ ma # Null
    /\ out' = Some(Call("identify_luxury_properties", identify_luxury_properties(Data)))
    /\ UNCHANGED <<df, schema, result, results, enriched, ma, tr, dl>>

PropertyUsageTransform ==
    /\ \E o \in property_usage_transform(Frame(df, schema)) :
           out' = Some(Call("PropertyUsage.transform", o))
    /\ UNCHANGED <<df, schema, result, results, enriched, ma, tr, dl>>

TopNs == {1, 20}
Periods == {"monthly", "quarterly", "yearly", "weekly"}

IdentifyHighDemandAreas ==
    /\ ma # Null
    /\ \E top_n \in TopNs : \E o \in identify_high_demand_areas(Data, "area_name_en", top_n) :
           out' = Some(CallWith("identify_high_demand_areas", <<"area_name_en", top_n>>, o))
    /\ UNCHANGED <<df, schema, result, results, enriched, ma, tr, dl>>

CalculateRentalTrends ==
    /\ ma # Null
    /\ \E period \in Periods :
           out' = Some(CallWith("calculate_rental_trends", <<"contract_start_date", period>>,
                                calculate_rental_trends(Data, "contract_start_date", period)))
    /\ UNCHANGED <<df, schema, result, results, enriched, ma, tr, dl>>

GenerateMarketSummary ==
    /\ ma # Null
    /\ \E o \in generate_market_summary(Data) : out' = Some(Call("generate_market_summary", o))
    /\ UNCHANGED <<df, schema, result, results, enriched, ma, tr, dl>>

AnalyticsNext ==
    \/ Construct
    \/ ConstructOnLuxuryOutput
    \/ CalculatePsfMetrics
    \/ AnalyzeByArea
    \/ IdentifyHighDemandAreas
    \/ AnalyzeByPropertyType
    \/ SegmentByUsage
    \/ IdentifyLuxuryProperties
    \/ CalculateRentalTrends
    \/ GenerateMarketSummary
    \/ PropertyUsageTransform

AnalyticsSpec == AnalyticsInit /\ [][AnalyticsNext]_vars

(***************************************************************************)
(* RentContractsTransformer.transform (rent_contracts_transformer.py).     *)
(* df and schema are what scan_csv and the date parsing make of the input  *)
(* file.  A run is the record of where the call stands (pc), of the steps  *)
(* it took on the files (events), of the output file and of what the call  *)
(* gave its caller.  scan_csv raises for a missing file at once or leaves  *)
(* it to the first collect or sink (lazy_scan), depending on the polars    *)
(* build.                                                                  *)
(***************************************************************************)
sample_size == 100000

head(rows, n) == SubSeq(rows, 1, IF n < Len(rows) THEN n ELSE Len(rows))

NoFile == [state |-> "absent", rows |-> <<>>]
OldFile == [state |-> "complete", rows |-> <<GoodRow>>]
File(state, rows) == [state |-> state, rows |-> rows]

\* What resolving the lazy frame raises: the input file is missing, or a date
\* column the with_columns names is not in the file.
plan_error(run, sch) ==
    IF ~run.input_exists THEN "FileNotFoundError"
    ELSE IF ~HasCol(sch, "contract_start_date") \/ ~HasCol(sch, "contract_end_date")
    THEN "ColumnNotFoundError"
    ELSE ""

\* The except clauses of transform: what the caller gets for an exception
\* raised in the try block.
handle_known_only(exception) ==
    IF exception \in {"FileNotFoundError", "ComputeError"}
    THEN [returned |-> Some(FALSE), raised |-> ""]
    ELSE [returned |-> Null, raised |-> exception]

handle(exception) ==
    CASE exception = "FileNotFoundError" -> [returned |-> Some(FALSE), raised |-> ""]
      [] exception = "ComputeError" -> [returned |-> Some(FALSE), raised |-> ""]
      [] OTHER -> [returned |-> Some(FALSE), raised |-> ""]

Caught(run, exception) ==
    [run EXCEPT !.pc = "done", !.exception = exception,
                !.returned = handle(exception).returned, !.raised = handle(exception).raised]

\* pl.scan_csv(...) and the lazy with_columns on the date columns.
scan_csv(run) ==
    IF ~run.input_exists /\ ~run.lazy_scan THEN Caught(run, "FileNotFoundError")
    ELSE [run EXCEPT !.pc = IF run.validate THEN "validate" ELSE "sink_parquet",
                     !.events = Append(@, "scan_csv")]

\* lf.head(sample_size).collect(), validate_rent_contracts on the sample, the
\* logging of its summary and errors, and _log_statistics.
validate_fails_on_errors(run, d, sch) ==
    IF plan_error(run, sch) # "" THEN Caught(run, plan_error(run, sch))
    ELSE LET df_sample == head(d, sample_size)
             validation_result == validate_rent_contracts(df_sample, sch, FALSE)
         IN  IF ~validation_result.is_valid
             THEN [Caught(run, "ValueError") EXCEPT !.validation = Some(validation_result),
                                                    !.sample = Some(df_sample),
                                                    !.events = Append(run.events, "validate")]
             ELSE [run EXCEPT !.pc = "sink_parquet", !.validation = Some(validation_result),
                              !.sample = Some(df_sample), !.events = Append(@, "validate")]

validate(run, d, sch) ==
    IF plan_error(run, sch) # "" THEN Caught(run, plan_error(run, sch))
    ELSE LET df_sample == head(d, sample_size)
             validation_result == validate_rent_contracts(df_sample, sch, FALSE)
         IN  [run EXCEPT !.pc = "sink_parquet", !.validation = Some(validation_result),
                         !.sample = Some(df_sample), !.events = Append(@, "validate")]

\* lf.sink_parquet(output_file, ...): streams the whole frame into the output
\* path.  The write completes, fails before the path is opened, or fails after
\* part of the file has been written; nothing removes or replaces the part.
WriteOutcomes == {"complete", "failed_to_open", "failed_part_way"}
WriteErrors == {"OSError", "ComputeError"}

sink_parquet(run, d, sch, outcome, exception) ==
    IF plan_error(run, sch) # "" THEN Caught(run, plan_error(run, sch))
    ELSE CASE outcome = "complete" ->
                  [run EXCEPT !.pc = "done", !.returned = Some(TRUE),
                              !.output = File("complete", d), !.events = Append(@, "write")]
           [] outcome = "failed_to_open" ->
                  [Caught(run, exception) EXCEPT !.events = Append(run.events, "write")]
           [] outcome = "failed_part_way" ->
                  [Caught(run, exception) EXCEPT !.events = Append(run.events, "write"),
                                                 !.output = File("partial", head(d, Len(d) - 1))]

(***************************************************************************)
(* Specification TransformSpec: one call of transform, on an input file    *)
(* that exists or not, with and without validation, over an output path    *)
(* that is free or holds an earlier file.                                  *)
(***************************************************************************)
TrDeviations ==
    {<<"annual_amount", Some(0)>>, <<"annual_amount", Null>>, <<"contract_id", Null>>}
TrRows == {GoodRow} \cup {[GoodRow EXCEPT ![e[1]] = e[2]] : e \in TrDeviations}
TrSchemas ==
    {FullSchema} \cup {Restrict(FullSchema, DOMAIN FullSchema \ {c})
                          : c \in {"contract_id", "contract_start_date"}}

NewRun(validate_flag, input_exists, lazy_scan, output) ==
    [pc |-> "scan_csv", validate |-> validate_flag, input_exists |-> input_exists,
     lazy_scan |-> lazy_scan, output |-> output, before |-> output, events |-> <<>>,
     validation |-> Null, sample |-> Null, exception |-> "", returned |-> Null, raised |-> ""]

TransformInit ==
    /\ \E rows \in BoundedSeq(TrRows, MaxRows), sch \in TrSchemas :
           /\ df = Project(rows, sch)
           /\ schema = sch
    /\ result = NewValidationResult
    /\ results = [strict \in BOOLEAN |-> Null]
    /\ enriched = Null /\ ma = Null /\ out = Null /\ dl = Null
    /\ \E validate_flag \in BOOLEAN, input_exists \in BOOLEAN, lazy_scan \in BOOLEAN,
          output \in {NoFile, OldFile} :
           tr = Some(NewRun(validate_flag, input_exists, lazy_scan, output))

ScanCsv ==
    /\ tr # Null /\ Val(tr).pc = "scan_csv"
    /\ tr' = Some(scan_csv(Val(tr)))
    /\ UNCHANGED <<df, schema, result, results, enriched, ma, out, dl>>

ValidateSample ==
    /\ tr # Null /\ Val(tr).pc = "validate"
    /\ tr' = Some(validate(Val(tr), df, schema))
    /\ UNCHANGED <<df, schema, result, results, enriched, ma, out, dl>>

SinkParquet ==
    /\ tr # Null /\ Val(tr).pc = "sink_parquet"
    /\ \E outcome \in WriteOutcomes, exception \in WriteErrors :
           tr' = Some(sink_parquet(Val(tr), df, schema, outcome, exception))
    /\ UNCHANGED <<df, schema, result, results, enriched, ma, out, dl>>

TransformNext == ScanCsv \/ ValidateSample \/ SinkParquet

TransformSpec == TransformInit /\ [][TransformNext]_vars

(***************************************************************************)
(* RentContractsDownloader (rent_contracts_downloader.py): the request     *)
(* loops of fetch_rent_contracts and download_file.  A run of a loop is    *)
(* the record of the attempt it is about to make, of the requests, logged  *)
(* errors and sleeps so far (events), of the local file, and of how the    *)
(* call ended.                                                             *)
(* One step is one pass of the for loop: the request, what is done with    *)
(* the response, and the except clause with its sleep.                     *)
(***************************************************************************)
max_retries == 3
retry_backoff_factor == 2

RECURSIVE Power(_, _)
Power(base, exponent) == IF exponent = 0 THEN 1 ELSE base * Power(base, exponent - 1)

\* What one pass can meet.  The request exceptions are Timeout and the other
\* subclasses of RequestException (HTTP status, connection, broken stream);
\* "open" and "write" are the IOErrors of the local file; "stream" failures
\* come after the file has been opened and part of it written.
FetchOutcomes ==
    {[ok |-> TRUE, exception |-> "", at |-> ""],
     [ok |-> FALSE, exception |-> "Timeout", at |-> "request"],
     [ok |-> FALSE, exception |-> "RequestException", at |-> "request"]}
DownloadOutcomes ==
    FetchOutcomes \cup
    {[ok |-> FALSE, exception |-> "Timeout", at |-> "stream"],
     [ok |-> FALSE, exception |-> "RequestException", at |-> "stream"],
     [ok |-> FALSE, exception |-> "IOError", at |-> "open"],
     [ok |-> FALSE, exception |-> "IOError", at |-> "write"]}

\* The file at download_file's filename before the call: none, or the one an
\* earlier download left there.
Files == {"absent", "old"}

NewLoop(fn, file) ==
    [fn |-> fn, attempt |-> 0, pc |-> "loop", events |-> <<>>, file |-> file,
     exception |-> ""]

\* The local file after one pass of download_file: open(filename, 'wb')
\* truncates it once the response is there.
file_after(file, outcome) ==
    IF outcome.ok THEN "complete"
    ELSE IF outcome.at \in {"stream", "write"} THEN "partial"
    ELSE file

\* except Timeout / except RequestException: sleep and go on, or re-raise on
\* the last attempt.
retry_without_wait(loop, requested, outcome) ==
    IF loop.attempt < max_retries - 1
    THEN [loop EXCEPT !.attempt = @ + 1, !.events = requested]
    ELSE [loop EXCEPT !.pc = "raised", !.exception = outcome.exception, !.events = requested]

retry(loop, requested, outcome) ==
    IF loop.attempt < max_retries - 1
    THEN LET wait_time == Power(retry_backoff_factor, loop.attempt)
         IN  [loop EXCEPT !.attempt = @ + 1,
                          !.events = Append(requested, <<"sleep", wait_time>>)]
    ELSE [loop EXCEPT !.pc = "raised", !.exception = outcome.exception, !.events = requested]

\* One pass of the for loop of fetch_rent_contracts or download_file.
attempt_once(loop, outcome) ==
    LET request == <<"request", loop.attempt>>
        requested == IF outcome.ok THEN Append(loop.events, request)
                     ELSE loop.events \o <<request, <<"error", outcome.exception>>>>
        file == IF loop.fn = "download_file" THEN file_after(loop.file, outcome) ELSE loop.file
    IN  IF outcome.ok
        THEN [loop EXCEPT !.pc = "returned", !.events = requested, !.file = file]
        ELSE IF outcome.exception \in {"Timeout", "RequestException"}
        THEN [retry(loop, requested, outcome) EXCEPT !.file = file]
        ELSE [loop EXCEPT !.pc = "raised", !.exception = outcome.exception,
                          !.events = requested, !.file = file]

(***************************************************************************)
(* Specification DownloadSpec: one call of fetch_rent_contracts or of      *)
(* download_file, under every course of its requests.                      *)
(***************************************************************************)
DownloadInit ==
    /\ df = <<>> /\ schema = FullSchema
    /\ result = NewValidationResult
    /\ results = [strict \in BOOLEAN |-> Null]
    /\ enriched = Null /\ ma = Null /\ out = Null /\ tr = Null
    /\ \E fn \in {"fetch_rent_contracts", "download_file"}, file \in Files :
            dl = Some(NewLoop(fn, file))

FetchAttempt ==
    /\ dl # Null /\ Val(dl).fn = "fetch_rent_contracts" /\ Val(dl).pc = "loop"
    /\ \E outcome \in FetchOutcomes : dl' = Some(attempt_once(Val(dl), outcome))
    /\ UNCHANGED <<df, schema, result, results, enriched, ma, out, tr>>

DownloadAttempt ==
    /\ dl # Null /\ Val(dl).fn = "download_file" /\ Val(dl).pc = "loop"
    /\ \E outcome \in DownloadOutcomes : dl' = Some(attempt_once(Val(dl), outcome))
    /\ UNCHANGED <<df, schema, result, results, enriched, ma, out, tr>>

DownloadNext == FetchAttempt \/ DownloadAttempt

DownloadSpec == DownloadInit /\ [][DownloadNext]_vars

(***************************************************************************)
(* RentContractsDownloader.run: fetch the page, parse it for the download  *)
(* link, download the file.  A job is the record of one call of run: where *)
(* it is (pc), the loop of the call in progress, the requests made by each *)
(* of the two calls, the content fetched (html), the link parse_html gave, *)
(* and what the caller gets (returned, raised); exception keeps what the   *)
(* except clause logged.                                                   *)
(***************************************************************************)
\* What the fetched page can be for parse_html.
Pages == {"link", "empty_href", "anchor_without_href", "no_anchor", "unparseable"}

\* parse_html: the href of the first a.action-icon-anchor, None when there
\* is no such tag, when it has no href, or when the parser raised.
parse_html(page) ==
    CASE page = "link" -> Some("href")
      [] page = "empty_href" -> Some("")
      [] OTHER -> Null

\* `if href:` (None and the empty string are falsy).
Truthy(href) == href # Null /\ Val(href) # ""

NewJob(file) ==
    [pc |-> "fetch", loop |-> NewLoop("fetch_rent_contracts", file),
     requests |-> [fetch_rent_contracts |-> 0, download_file |-> 0],
     html |-> Null, page |-> "", href |-> Null, returned |-> Null, raised |-> "", exception |-> "",
     file |-> file]

\* except Exception as e: log, return False.  The mutant lets the exception
\* through.
run_reraise(job, loop) ==
    [job EXCEPT !.pc = "raised", !.loop = loop, !.exception = loop.exception,
                !.raised = loop.exception, !.file = loop.file,
                !.requests[loop.fn] = @ + 1]

run_except(job, loop) ==
    [job EXCEPT !.pc = "returned", !.loop = loop, !.exception = loop.exception,
                !.returned = Some(FALSE), !.file = loop.file,
                !.requests[loop.fn] = @ + 1]

\* One pass of the loop of fetch_rent_contracts inside run.
run_fetch(job, outcome) ==
    LET loop == attempt_once(job.loop, outcome)
    IN  CASE loop.pc = "raised" -> run_except(job, loop)
          [] loop.pc = "returned" ->
                [job EXCEPT !.pc = "parse", !.loop = loop, !.html = Some("html_content"),
                            !.requests[loop.fn] = @ + 1]
          [] OTHER -> [job EXCEPT !.loop = loop, !.requests[loop.fn] = @ + 1]

\* href = self.parse_html(html_content); if href: ... else: return False.
\* The mutant downloads whatever parse_html gave.
run_parse_unchecked(job, page) ==
    [job EXCEPT !.pc = "download", !.page = page, !.href = parse_html(page),
                !.loop = NewLoop("download_file", job.file)]

run_parse(job, page) ==
    LET href == parse_html(page)
    IN  IF Truthy(href)
        THEN [job EXCEPT !.pc = "download", !.page = page, !.href = href,
                         !.loop = NewLoop("download_file", job.file)]
        ELSE [job EXCEPT !.pc = "returned", !.page = page, !.href = href,
                         !.returned = Some(FALSE)]

\* One pass of the loop of download_file inside run; return True after it.
run_download(job, outcome) ==
    LET loop == attempt_once(job.loop, outcome)
    IN  CASE loop.pc = "raised" -> run_except(job, loop)
          [] loop.pc = "returned" ->
                [job EXCEPT !.pc = "returned", !.loop = loop, !.returned = Some(TRUE),
                            !.file = loop.file, !.requests[loop.fn] = @ + 1]
          [] OTHER -> [job EXCEPT !.loop = loop, !.file = loop.file, !.requests[loop.fn] = @ + 1]

(***************************************************************************)
(* Specification RunSpec: one call of run(filename), under every course of *)
(* its requests and every page.                                            *)
(***************************************************************************)
RunInit ==
    /\ df = <<>> /\ schema = FullSchema
    /\ result = NewValidationResult
    /\ results = [strict \in BOOLEAN |-> Null]
    /\ enriched = Null /\ ma = Null /\ out = Null /\ tr = Null
    /\ \E file \in Files : dl = Some(NewJob(file))

RunFetchRentContracts ==
    /\ dl # Null /\ Val(dl).pc = "fetch"
    /\ \E outcome \in FetchOutcomes : dl' = Some(run_fetch(Val(dl), outcome))
    /\ UNCHANGED <<df, schema, result, results, enriched, ma, out, tr>>

RunParseHtml ==
    /\ dl # Null /\ Val(dl).pc = "parse"
    /\ \E page \in Pages : dl' = Some(run_parse(Val(dl), page))
    /\ UNCHANGED <<df, schema, result, results, enriched, ma, out, tr>>

RunDownloadFile ==
    /\ dl # Null /\ Val(dl).pc = "download"
    /\ \E outcome \in DownloadOutcomes : dl' = Some(run_download(Val(dl), outcome))
    /\ UNCHANGED <<df, schema, result, results, enriched, ma, out, tr>>

RunNext == RunFetchRentContracts \/ RunParseHtml \/ RunDownloadFile

RunSpec == RunInit /\ [][RunNext]_vars

(***************************************************************************)
(* Specification OutlierSpec: validate_rent_contracts under a configured   *)
(* MARKET_METRICS["outlier_iqr_multiplier"].  The run is kept in out with  *)
(* the value the configuration had.  _detect_outliers does not read the    *)
(* configuration: its multiplier is the literal 3.0.                       *)
(***************************************************************************)
outlier_iqr_multiplier == 3
Multipliers == {2, outlier_iqr_multiplier}

validate_configured(d, sch, strict, multiplier) ==
    [outlier_iqr_multiplier |-> multiplier, strict |-> strict,
     result |-> validate_rent_contracts(d, sch, strict)]

OutlierInit == Init

ValidateConfigured ==
    /\ out = Null
    /\ \E multiplier \in Multipliers, strict \in BOOLEAN :
          out' = Some(validate_configured(df, schema, strict, multiplier))
    /\ UNCHANGED <<df, schema, result, results, enriched, ma, tr, dl>>

OutlierNext == ValidateConfigured

OutlierSpec == OutlierInit /\ [][OutlierNext]_vars

(***************************************************************************)
(* Specification TypeSpec: validate_rent_contracts on datasets whose       *)
(* numeric fields have each polars type.  annual_amount, whose cells the   *)
(* other checks compare with numbers, has a type that holds its values;    *)
(* contract_amount and no_of_prop have any type, or are absent.            *)
(***************************************************************************)
IntegerDtypes == {"Int8", "Int16", "Int32", "Int64", "UInt8", "UInt16", "UInt32", "UInt64"}
FloatDtypes == {"Float32", "Float64"}
Dtypes == IntegerDtypes \cup FloatDtypes \cup {"String", "Boolean", "Decimal"}
AmountDtypes == {"Int32", "Int64", "UInt32", "UInt64", "Float32", "Float64"}

TypeSchemas ==
    LET typed == {[FullSchema EXCEPT !.annual_amount = a, !.contract_amount = c, !.no_of_prop = n] :
                     a \in AmountDtypes, c \in Dtypes, n \in Dtypes}
    IN  typed \cup {Restrict(sch, DOMAIN sch \ {"no_of_prop"}) : sch \in typed}

TypeInit ==
    /\ \E sch \in TypeSchemas :
           /\ df = Project(<<GoodRow>>, sch)
           /\ schema = sch
    /\ Idle

TypeSpec == TypeInit /\ [][Next]_vars

(***************************************************************************)
(* Properties of the validator.                                            *)
(***************************************************************************)
Done(strict) == results[strict] # Null
Res(strict) == Val(results[strict])
Checks(msgs) == [i \in 1..Len(msgs) |-> msgs[i].check]
MissingRequired == \E f \in Range(required_fields) : ~HasCol(schema, f)

\* C1: validating a dataset with zero rows yields exactly one error (the
\* emptiness error), is_valid = FALSE, no warnings and no info: no other check
\* ran, whatever the schema lacks.
C1_EmptyDataset ==
    \A strict \in BOOLEAN :
        (Done(strict) /\ df = <<>>) =>
            /\ Res(strict).errors = <<Msg("empty", <<>>, 0, 0)>>
            /\ Res(strict).is_valid = FALSE
            /\ Res(strict).warnings = <<>>
            /\ Res(strict).info = <<>>

C1_Witness == df = <<>> /\ Done(TRUE) /\ Done(FALSE) /\ MissingRequired

\* C2: under any sequence of add_error / add_warning / add_info calls,
\* is_valid is false exactly when errors is non-empty; a step that appends a
\* warning or an info leaves is_valid as it was; is_valid never goes back from
\* false to true.
C2_ValidityFlag ==
    /\ [](result.is_valid <=> result.errors = <<>>)
    /\ [][/\ (result'.warnings # result.warnings \/ result'.info # result.info)
                => result'.is_valid = result.is_valid
          /\ ~result.is_valid => ~result'.is_valid]_vars

C2_Witness ==
    /\ ~result.is_valid
    /\ Len(result.errors) = 1
    /\ Len(result.warnings) = 1
    /\ Len(result.info) = 1

\* The findings one check reports on its own, started from a fresh result.
Alone(strict, which) ==
    CASE which = 1 -> validate_schema(df, schema, NewValidationResult)
      [] which = 2 -> validate_required_fields(df, schema, strict, NewValidationResult)
      [] which = 3 -> validate_data_types(df, schema, NewValidationResult)
      [] which = 4 -> validate_rent_amounts(df, schema, NewValidationResult)
      [] which = 5 -> validate_property_sizes(df, schema, NewValidationResult)
      [] which = 6 -> validate_dates(df, schema, NewValidationResult)
      [] which = 7 -> validate_business_logic(df, schema, NewValidationResult)
      [] which = 8 -> detect_outliers(df, schema, NewValidationResult)

RECURSIVE InOrder(_, _, _)
InOrder(strict, which, level) ==
    IF which > 8 THEN <<>>
    ELSE Alone(strict, which)[level] \o InOrder(strict, which + 1, level)

\* C3: for a non-empty dataset every check runs, in the fixed order schema,
\* required-field nulls, types, amount range, area range, date nulls, temporal
\* consistency and duration, outliers: each list of the result is the
\* concatenation, in that order, of what each check finds on its own, whether
\* or not an earlier check reported an error.
C3_AllChecksRun ==
    \A strict \in BOOLEAN :
        (Done(strict) /\ df # <<>>) =>
            /\ Res(strict).errors = InOrder(strict, 1, "errors")
            /\ Res(strict).warnings = InOrder(strict, 1, "warnings")
            /\ Res(strict).info = <<Msg("validating", <<>>, Len(df), 0)>> \o InOrder(strict, 1, "info")

\* The example of the claim: a required column missing, a row with amount <= 0
\* and a row with end <= start give all three errors.
C3_Witness ==
    /\ Done(FALSE)
    /\ Checks(Res(FALSE).errors) = <<"missing_columns", "rent_not_positive", "end_not_after_start">>

NullMsgs(msgs, field) ==
    SelectSeq(msgs, LAMBDA m : m.check = "null_values" /\ m.fields = <<field>>)
Nulls(field) ==
    IF HasCol(schema, field) THEN Cardinality({i \in 1..Len(df) : IsNull(df[i][field])}) ELSE 0

\* C4: a required field that is a column and has n > 0 nulls gets exactly one
\* message, carrying n and n as a percentage of all rows: among the errors
\* (is_valid false) when strict, among the warnings (and not the errors) when
\* not strict; a required field without nulls, or absent, gets no message.
C4_RequiredNulls ==
    \A strict \in BOOLEAN : \A field \in Range(required_fields) :
        Done(strict) =>
            LET expected == <<Msg("null_values", <<field>>, Nulls(field),
                                  Pct2(Nulls(field), Len(df)))>>
                inErrors == NullMsgs(Res(strict).errors, field)
                inWarnings == NullMsgs(Res(strict).warnings, field)
            IN  IF HasCol(schema, field) /\ Nulls(field) > 0
                THEN IF strict
                     THEN inErrors = expected /\ inWarnings = <<>> /\ ~Res(strict).is_valid
                     ELSE inWarnings = expected /\ inErrors = <<>>
                ELSE inErrors = <<>> /\ inWarnings = <<>>

C4_Witness ==
    /\ Done(TRUE) /\ Done(FALSE)
    /\ Nulls("contract_id") = 1 /\ Len(df) = 2
    /\ Res(TRUE).errors = <<Msg("null_values", <<"contract_id">>, 1, 5000)>>
    /\ Res(FALSE).warnings = <<Msg("null_values", <<"contract_id">>, 1, 5000)>>
    /\ Res(FALSE).is_valid

\* C5: in strict mode warnings are treated as errors: every finding the
\* non-strict run reports as a warning is among the errors of the strict run,
\* and a strict result that carries a warning is invalid.
C5_StrictPromotesWarnings ==
    (Done(TRUE) /\ Done(FALSE)) =>
        /\ \A w \in Range(Res(FALSE).warnings) : w \in Range(Res(TRUE).errors)
        /\ Res(TRUE).warnings # <<>> => ~Res(TRUE).is_valid

(***************************************************************************)
(* Properties of the enricher.                                             *)
(***************************************************************************)
Enriched == Val(enriched)
PsfColumns == HasCol(schema, "actual_area") /\ HasCol(schema, "annual_amount")

\* C6: for every row, price_per_sqft is annual_amount / actual_area exactly
\* (no rounding) when both are non-null and strictly positive, and null (never
\* zero, negative or infinite) when either is null or <= 0.
C6_PricePerSqft ==
    (enriched # Null /\ PsfColumns) =>
        /\ Len(Enriched.rows) = Len(df)
        /\ \A i \in 1..Len(df) :
               LET amount == df[i].annual_amount
                   area == df[i].actual_area
                   p == Enriched.rows[i].price_per_sqft
               IN  IF NotNull(amount) /\ NotNull(area) /\ Val(amount) > 0 /\ Val(area) > 0
                   THEN NotNull(p) /\ Val(p)[2] > 0 /\ Val(p)[1] * Val(area) = Val(amount) * Val(p)[2]
                   ELSE IsNull(p)

\* A ratio that is no whole number next to a row with a non-positive amount.
C6_Witness ==
    /\ enriched # Null /\ PsfColumns /\ Len(df) = 2
    /\ df[1].annual_amount = Some(120000) /\ df[1].actual_area = Some(900)
    /\ Enriched.rows[1].price_per_sqft = Some(Frac(120000, 900))
    /\ df[2].annual_amount = Some(0)
    /\ Enriched.rows[2].price_per_sqft = Null

(***************************************************************************)
(* Properties of the analytics engine and the usage report.                *)
(***************************************************************************)
Out == Val(out)
Called(op) == out # Null /\ Out.op = op
Input == Frame(df, schema)

\* The row passes the PSF step: area and amount non-null and positive, and
\* amount / area within [20, 500] for a residential usage, within [30, 800]
\* for a commercial one.
PsfQualifies(row) ==
    /\ HasCol(schema, "actual_area")
    /\ Positive(row.actual_area) /\ Positive(row.annual_amount)
    /\ NotNull(row.property_usage_en)
    /\ LET amount == Val(row.annual_amount)
           area == Val(row.actual_area)
       IN  \/ /\ is_residential(Val(row.property_usage_en))
              /\ min_psf_residential * area <= amount /\ amount <= max_psf_residential * area
           \/ /\ is_commercial(Val(row.property_usage_en))
              /\ min_psf_commercial * area <= amount /\ amount <= max_psf_commercial * area

WithoutColumns(rows, cols) ==
    [i \in 1..Len(rows) |-> Restrict(rows[i], DOMAIN rows[i] \ cols)]

\* C7: calculate_psf_metrics returns exactly the rows whose area and amount are
\* non-null and positive and whose PSF = amount / area is within the bounds of
\* their usage (residential or commercial; rows of other usages are dropped),
\* each with that PSF; on the three-row scenario, one row with PSF 120.
C7_PsfSubset ==
    (Called("calculate_psf_metrics") /\ Val(ma).source = "dataset") =>
        /\ Out.raised = ""
        /\ WithoutColumns(Out.frame.rows, {"psf"}) = SelectSeq(df, PsfQualifies)
        /\ \A i \in 1..Len(Out.frame.rows) :
               FEq(Val(Out.frame.rows[i].psf),
                   Frac(Val(Out.frame.rows[i].annual_amount), Val(Out.frame.rows[i].actual_area)))
        /\ (df = ThreeRows /\ schema = FullSchema) =>
               /\ Len(Out.frame.rows) = 1
               /\ FEq(Val(Out.frame.rows[1].psf), Frac(120, 1))

Qualifying(area) ==
    Len(SelectSeq(df, LAMBDA row : PsfQualifies(row) /\ row.area_name_en = area))
Areas == IF HasCol(schema, "area_name_en") THEN {df[i].area_name_en : i \in 1..Len(df)} ELSE {}

\* C8: analyze_by_area keeps an area exactly when its number of PSF-qualifying
\* rows is at least the minimum sample size (10; 9 rows: excluded, 10:
\* included), and returns the groups by descending contract_count.
C8_AreaSampleSize ==
    (Called("analyze_by_area") /\ Val(ma).source = "dataset") =>
        /\ Out.raised = ""
        /\ {row.area_name_en : row \in Range(Out.frame.rows)} =
               {area \in Areas : Qualifying(area) >= min_area_sample_size}
        /\ \A i \in 1..Len(Out.frame.rows) :
               /\ Val(Out.frame.rows[i].contract_count) = Qualifying(Out.frame.rows[i].area_name_en)
               /\ i > 1 => Val(Out.frame.rows[i - 1].contract_count)
                               >= Val(Out.frame.rows[i].contract_count)

\* The grouping of each operation of C9: its name, the column of the counts,
\* the key column and the rows that pass its filter.
CountName == IF Out.op = "PropertyUsage.transform" THEN "no_of_contracts" ELSE "contract_count"
KeyColumn == IF Out.op = "analyze_by_property_type" THEN type_column(Input) ELSE "property_usage_en"
Filtered ==
    SelectSeq(df, LAMBDA row : /\ Positive(row.annual_amount)
                               /\ Out.op = "PropertyUsage.transform" => NotNull(row.property_usage_en))
Grouping ==
    /\ out # Null
    /\ Out.op \in {"analyze_by_property_type", "segment_by_usage", "PropertyUsage.transform"}
    /\ Out.raised = ""
Groups == Out.frame.rows
Shares == [i \in 1..Len(Groups) |-> Val(Groups[i].market_share_pct)]
Counts == [i \in 1..Len(Groups) |-> Val(Groups[i][CountName])]

\* The groups are a partition of the filtered rows and every share is
\* count / total x 100.
PartitionWithShares ==
    /\ SumSeq(Counts) = Len(Filtered)
    /\ \A i, j \in 1..Len(Groups) : i # j => Groups[i][KeyColumn] # Groups[j][KeyColumn]
    /\ \A i \in 1..Len(Groups) :
           /\ Counts[i] > 0
           /\ Counts[i] = Len(SelectSeq(Filtered, LAMBDA row : row[KeyColumn] = Groups[i][KeyColumn]))
           /\ FEq(Shares[i], Frac(Counts[i] * 100, Len(Filtered)))

\* C9 as claimed: in analyze_by_property_type, segment_by_usage and
\* PropertyUsage.transform the groups partition the filtered rows, each share
\* is count / total x 100, and the shares of the returned groups sum to 100.
C9_SharesSumTo100 ==
    Grouping => (PartitionWithShares /\ FEq(FSum(Shares), Frac(100, 1)))

\* C9 as amended: whenever one of the three operations returns at least one
\* group, the groups partition the filtered rows, each share is
\* count / total x 100 and the shares sum to 100; it returns no group exactly
\* when no row passes the filter or (analyze_by_property_type) the dataset has
\* no property-type column.
C9_SharesOfReturnedGroups ==
    Grouping =>
        /\ Groups # <<>> => (PartitionWithShares /\ FEq(FSum(Shares), Frac(100, 1)))
        /\ Groups = <<>> <=> (Filtered = <<>> \/ KeyColumn = "")

C9_Witness ==
    /\ Called("segment_by_usage") /\ Out.raised = ""
    /\ Counts = <<10, 1>>
    /\ Shares = <<Frac(1000, 11), Frac(100, 11)>>

\* C10: luxury identification is idempotent: MarketAnalytics can be built on
\* the frame identify_luxury_properties returned, and identify_luxury_properties
\* on that object returns the same rows with the same is_luxury values.
C10_LuxuryIdempotent ==
    /\ (Called("__init__") /\ ma # Null) => Out.raised = ""
    /\ (Called("identify_luxury_properties") /\ Val(ma).source = "luxury_output") =>
           (Out.raised = "" /\ Out.frame.rows = Data.rows)

\* C11: contract_duration_category is "Short-term" below 180 days (179),
\* "Medium-term" from 180 to 364 days, "Long-term" from 365 days on, and
\* "Unknown" exactly when the duration is null, which is exactly when the start
\* or the end date of the row is null.
C11_DurationCategory ==
    (enriched # Null /\ HasCol(Enriched.schema, "contract_duration_category")) =>
        \A i \in 1..Len(df) :
            LET start == df[i].contract_start_date
                end == df[i].contract_end_date
                days == Enriched.rows[i].contract_duration_days
                category == Enriched.rows[i].contract_duration_category
            IN  /\ IsNull(days) <=> (IsNull(start) \/ IsNull(end))
                /\ category = Some("Unknown") <=> IsNull(days)
                /\ NotNull(days) =>
                       /\ Val(days) = Val(end) - Val(start)
                       /\ category = Some("Short-term") <=> Val(days) < 180
                       /\ category = Some("Medium-term") <=> (180 <= Val(days) /\ Val(days) < 365)
                       /\ category = Some("Long-term") <=> Val(days) >= 365

C11_Witness ==
    /\ enriched # Null /\ Len(df) = 2
    /\ HasCol(Enriched.schema, "contract_duration_category")
    /\ Enriched.rows[1].contract_duration_days = Some(179)
    /\ Enriched.rows[1].contract_duration_category = Some("Short-term")
    /\ Enriched.rows[2].contract_duration_days = Some(180)
    /\ Enriched.rows[2].contract_duration_category = Some("Medium-term")

Sample ==
    IF HasCol(schema, "annual_amount")
    THEN Column(SelectSeq(df, LAMBDA row : Positive(row.annual_amount)), "annual_amount")
    ELSE <<>>
OutlierMsgs(strict) == SelectSeq(Res(strict).info, LAMBDA m : m.check = "outliers")
Outside == Cardinality({i \in 1..Len(Sample) : Sample[i] < 0 - 250000 \/ Sample[i] > 450000})

\* C12: for a sample of at least 10 non-null positive amounts with Q1 = 50000
\* and Q3 = 150000 the outliers are the amounts strictly outside
\* [-250000, 450000] (500000 is one, 400000 and 450000 are not): the one info
\* message on outliers carries their number and their share of the sample, and
\* there is no such message when there is none.
C12_OutlierBounds ==
    \A strict \in BOOLEAN :
        (/\ Done(strict) /\ Len(Sample) >= 10
         /\ quantile(AsFracs(Sample), 25, 100) = Frac(50000, 1)
         /\ quantile(AsFracs(Sample), 75, 100) = Frac(150000, 1)) =>
            OutlierMsgs(strict) =
                IF Outside = 0 THEN <<>>
                ELSE <<Msg("outliers", <<>>, Outside, Pct2(Outside, Len(Sample)))>>

C12_Witness ==
    /\ Done(FALSE) /\ Len(Sample) = 11
    /\ quantile(AsFracs(Sample), 25, 100) = Frac(50000, 1)
    /\ quantile(AsFracs(Sample), 75, 100) = Frac(150000, 1)
    /\ Sample[10] = 450000 /\ Sample[11] = 500000
    /\ OutlierMsgs(FALSE) = <<Msg("outliers", <<>>, 1, 909)>>

DerivedColumns ==
    {"price_per_sqft", "area_tier", "property_type_normalized", "contract_year",
     "contract_quarter", "contract_month", "contract_weekday", "contract_season",
     "contract_duration_days", "contract_duration_category", "is_luxury", "usage_category"}

Operations ==
    {"calculate_psf_metrics", "analyze_by_area", "identify_high_demand_areas",
     "analyze_by_property_type", "segment_by_usage", "identify_luxury_properties",
     "calculate_rental_trends"}

\* C14: on a dataset with the annual_amount and property_usage_en columns every
\* MarketAnalytics operation returns normally: none raises, and a table it
\* returns has no row whose cells are all null (with an optional column absent
\* or no qualifying row the table has zero rows, the summary lacks the key).
C14_NeverRaises ==
    (out # Null /\ Out.op \in Operations \cup {"generate_market_summary"}) =>
        /\ Out.raised = ""
        /\ Out.op \in Operations =>
               \A i \in 1..Len(Out.frame.rows) :
                   \E c \in DOMAIN Out.frame.rows[i] : NotNull(Out.frame.rows[i][c])

RequiredColumns == {"annual_amount", "property_usage_en"}

\* C15: MarketAnalytics(data) raises exactly when data lacks the annual_amount
\* or the property_usage_en column, and the error names every missing one;
\* with both columns it succeeds and holds data, whatever the rows (none
\* included).
C15_ConstructorRaises ==
    Called("__init__") =>
        LET data == Out.args[1]
            absent == {c \in RequiredColumns : ~HasCol(data.schema, c)}
        IN  /\ Out.raised # "" <=> absent # {}
            /\ Out.raised # "" =>
                   /\ Out.raised = "ValueError"
                   /\ Range(Out.detail) = absent /\ Len(Out.detail) = Cardinality(absent)
            /\ Out.raised = "" => (ma # Null /\ Data = data)

C15_Witness ==
    /\ Called("__init__") /\ ma = Null
    /\ Out.args[1] = Input /\ Len(df) = 1
    /\ Out.raised = "ValueError"
    /\ Out.detail = <<"annual_amount", "property_usage_en">>

\* The call records an operation can produce on the dataset data, given the
\* arguments of the call.
ResultsOf(call, data) ==
    CASE call.op = "calculate_psf_metrics" -> {Call(call.op, calculate_psf_metrics(data))}
      [] call.op = "analyze_by_area" ->
             {Call(call.op, o) : o \in analyze_by_area(data, "area_name_en")}
      [] call.op = "identify_high_demand_areas" ->
             {CallWith(call.op, call.args, o)
                 : o \in identify_high_demand_areas(data, call.args[1], call.args[2])}
      [] call.op = "analyze_by_property_type" ->
             {Call(call.op, o) : o \in analyze_by_property_type(data)}
      [] call.op = "segment_by_usage" -> {Call(call.op, o) : o \in segment_by_usage(data)}
      [] call.op = "identify_luxury_properties" ->
             {Call(call.op, identify_luxury_properties(data))}
      [] call.op = "calculate_rental_trends" ->
             {CallWith(call.op, call.args,
                       calculate_rental_trends(data, call.args[1], call.args[2]))}
      [] call.op = "generate_market_summary" ->
             {Call(call.op, o) : o \in generate_market_summary(data)}

Run == Val(tr)
Finished == tr # Null /\ Run.pc = "done"
Wrote == \E i \in 1..Len(Run.events) : Run.events[i] = "write"

C18_TransformNeverRaises ==
    Finished =>
        /\ Run.raised = "" /\ Run.returned \in {Some(TRUE), Some(FALSE)}
        /\ Run.exception # "" => Run.returned = Some(FALSE)
        /\ Run.returned = Some(TRUE) =>
               (Wrote /\ Run.exception = "" /\ Run.output = File("complete", df))
        /\ plan_error(Run, schema) # "" =>
               (Run.returned = Some(FALSE) /\ ~Wrote /\ Run.output = Run.before)
        /\ \A i, j \in 1..Len(Run.events) : i # j => Run.events[i] # Run.events[j]

C18_Witness ==
    /\ Finished /\ ~Run.input_exists /\ Run.validate
    /\ Run.exception = "FileNotFoundError"
    /\ Run.returned = Some(FALSE) /\ Run.raised = ""
    /\ ~Wrote /\ Run.output = Run.before

\* C19: a write is atomic or cleanly failed: when transform returns False the
\* output path holds what it held before or a complete file, never a part of
\* one.
C19_AtomicWrite ==
    (Finished /\ Run.returned = Some(FALSE)) =>
        (Run.output = Run.before \/ Run.output.state = "complete")

(***************************************************************************)
(* Properties of the downloader                                            *)
(***************************************************************************)
Loop == Val(dl)
Events == Loop.events
IsRequest(k) == Events[k][1] = "request"
IsError(k) == Events[k][1] = "error"
IsSleep(k) == Events[k][1] = "sleep"
Requests == {k \in DOMAIN Events : IsRequest(k)}
Sleeps == {k \in DOMAIN Events : IsSleep(k)}

Job == Val(dl)
\* What the caller of run has in hand when it is over.
Seen(job) == [returned |-> job.returned, raised |-> job.raised]
JobOver == dl # Null /\ Job.pc \in {"returned", "raised"}
RetryableFailure == JobOver /\ Job.exception \in {"Timeout", "RequestException"}
FatalFailure ==
    /\ JobOver
    /\ \/ Job.exception = "IOError"
       \/ Job.html # Null /\ Job.page # "link" /\ Job.exception = ""
\* What the caller has in hand after the fatal failures: no link in the
\* page, and a local file error on the first download attempt.
FatalResults ==
    {Seen(run_parse(NewJob(file), page)) : file \in Files, page \in Pages \ {"link"}}
    \cup {Seen(run_except(NewJob(file),
                          attempt_once(NewLoop("download_file", file),
                                       [ok |-> FALSE, exception |-> "IOError", at |-> at]))) :
            file \in Files, at \in {"open", "write"}}

\* C21: a run that failed on a retryable failure (timeouts or request
\* errors on every attempt) gives its caller an outcome that no fatal
\* failure (no download link, local file error) gives.
C21_FailureKindReported ==
    RetryableFailure => Seen(Job) \notin FatalResults

\* What run does give: the same False for both kinds.
C21_SameOutcome ==
    (RetryableFailure \/ FatalFailure) => Seen(Job) = [returned |-> Some(FALSE), raised |-> ""]

FetchSucceeded == Job.html # Null
LinkFound == Job.page = "link"
DownloadCompleted == Job.loop.fn = "download_file" /\ Job.loop.pc = "returned"

\* C29: run never raises; when it is over it has returned True if the page
\* fetch succeeded, a download link was found and download_file completed,
\* and False in every other case; it makes no download request unless the
\* fetch succeeded and a link was found, and at most max_retries requests
\* for the page and max_retries for the file.
C29_RunNeverRaises ==
    dl # Null =>
        /\ Job.raised = "" /\ Job.pc # "raised"
        /\ Job.pc = "returned" <=> Job.returned # Null
        /\ Job.returned # Null =>
              /\ Val(Job.returned) \in BOOLEAN
              /\ Val(Job.returned) <=> (FetchSucceeded /\ LinkFound /\ DownloadCompleted)
        /\ ~(FetchSucceeded /\ LinkFound) => Job.requests.download_file = 0
        /\ Job.requests.fetch_rent_contracts <= max_retries
        /\ Job.requests.download_file <= max_retries
        /\ Job.requests.fetch_rent_contracts + Job.requests.download_file <= 2 * max_retries

\* run returns True on the last request it may make: the page came on the
\* third attempt and the file on the third attempt.
C29_Witness ==
    /\ dl # Null /\ Job.returned = Some(TRUE)
    /\ Job.requests.fetch_rent_contracts + Job.requests.download_file = 2 * max_retries

\* run returns False without a download request: the page has no link.
C29_WitnessNoLink ==
    /\ dl # Null /\ Job.returned = Some(FALSE) /\ FetchSucceeded /\ ~LinkFound
    /\ Job.requests.download_file = 0

(***************************************************************************)
(* Properties of the validator: the two modes side by side                 *)
(***************************************************************************)
RequiredNullMsgs(msgs) == SelectSeq(msgs, LAMBDA m : m.check = "null_values")
OtherMsgs(msgs) == SelectSeq(msgs, LAMBDA m : m.check # "null_values")

Configured == Val(out)
Q1 == quantile(AsFracs(Sample), 25, 100)[1]
Q3 == quantile(AsFracs(Sample), 75, 100)[1]
OutsideFor(k) ==
    Cardinality({i \in 1..Len(Sample) :
                    \/ Sample[i] < Q1 - k * (Q3 - Q1)
                    \/ Sample[i] > Q3 + k * (Q3 - Q1)})

\* C23: with the multiplier configured as k, the outliers reported for a
\* sample of at least 10 non-null positive amounts are the amounts strictly
\* outside [Q1 - k*IQR, Q3 + k*IQR]: the info message on outliers carries
\* their number, and there is none when there is no such amount.
C23_ConfiguredMultiplier ==
    (out # Null /\ Len(Sample) >= 10) =>
        LET k == Configured.outlier_iqr_multiplier
            msgs == SelectSeq(Configured.result.info, LAMBDA m : m.check = "outliers")
        IN  msgs = IF OutsideFor(k) = 0 THEN <<>>
                   ELSE <<Msg("outliers", <<>>, OutsideFor(k), Pct2(OutsideFor(k), Len(Sample)))>>

\* What the code does: the bounds are those of the multiplier 3 whatever is
\* configured.
C23_LiteralMultiplier ==
    (out # Null /\ Len(Sample) >= 10) =>
        LET msgs == SelectSeq(Configured.result.info, LAMBDA m : m.check = "outliers")
        IN  msgs = IF OutsideFor(3) = 0 THEN <<>>
                   ELSE <<Msg("outliers", <<>>, OutsideFor(3), Pct2(OutsideFor(3), Len(Sample)))>>

\* C24: for every row of a dataset with the area-name column, area_tier is
\* the tier AREA_CLASSIFICATIONS gives the row's area name ("Downtown Dubai"
\* is Premium, "Deira" is Budget) and "Mid-Tier" for a name that is not in
\* the table: the tier get_area_tier gives the name.
C24_AreaTier ==
    (enriched # Null /\ HasCol(schema, "area_name_en")) =>
        /\ HasCol(Enriched.schema, "area_tier")
        /\ \A i \in 1..Len(df) :
              Enriched.rows[i].area_tier =
                  Some(IF IsNull(df[i].area_name_en) THEN "Mid-Tier"
                       ELSE get_area_tier(Val(df[i].area_name_en)))

\* What _add_area_tier gives: "Mid-Tier" for every row.
C24_AlwaysMidTier ==
    (enriched # Null /\ HasCol(schema, "area_name_en")) =>
        \A i \in 1..Len(df) : Enriched.rows[i].area_tier = Some("Mid-Tier")

\* C25: for every row with a property type, property_type_normalized is the
\* PROPERTY_TYPE_MAPPINGS value of the lower-cased, trimmed type when it is
\* an alias ("apt" and " FLAT " give "Apartment") and the title-cased type
\* otherwise ("hotel apartment" gives "Hotel Apartment"); it is not the bare
\* lower-cased string.
C25_PropertyTypeNormalized ==
    (enriched # Null /\ HasCol(schema, "ejari_property_type_en")) =>
        /\ HasCol(Enriched.schema, "property_type_normalized")
        /\ \A i \in 1..Len(df) :
              NotNull(df[i].ejari_property_type_en) =>
                  Enriched.rows[i].property_type_normalized =
                      Some(normalize_property_type(Val(df[i].ejari_property_type_en)))

\* What _normalize_property_types gives: the lower-cased, trimmed string.
C25_LowercasedTrimmed ==
    (enriched # Null /\ HasCol(schema, "ejari_property_type_en")) =>
        \A i \in 1..Len(df) :
            NotNull(df[i].ejari_property_type_en) =>
                Enriched.rows[i].property_type_normalized
                    \in {Some("flat"), Some("apt"), Some("hotel apartment")}

LuxuryBase ==
    SelectSeq(Enriched.rows, LAMBDA row : NotNull(row.price_per_sqft) /\ NotNull(row.annual_amount))
PsfThreshold == quantile(FracColumn(LuxuryBase, "price_per_sqft"), 75, 100)
RentThreshold == quantile(AsFracs(Column(LuxuryBase, "annual_amount")), 80, 100)

\* C27: whenever enrich() produces is_luxury, every row has it true or false,
\* never null; with the 75th percentile of price_per_sqft and the 80th of
\* annual_amount taken over the rows where both are non-null, a row is flagged
\* iff its price_per_sqft is at least the first or its annual_amount at least
\* the second, and no row is flagged when no row has both.
C27_LuxuryFlag ==
    (enriched # Null /\ HasCol(Enriched.schema, "is_luxury")) =>
        \A i \in 1..Len(Enriched.rows) :
            LET row == Enriched.rows[i]
            IN  /\ row.is_luxury \in {Some(TRUE), Some(FALSE)}
                /\ IF LuxuryBase = <<>> THEN row.is_luxury = Some(FALSE)
                   ELSE Val(row.is_luxury) <=>
                           \/ NotNull(row.price_per_sqft)
                                /\ FLe(PsfThreshold, Val(row.price_per_sqft))
                           \/ NotNull(row.annual_amount)
                                /\ FLe(RentThreshold, Frac(Val(row.annual_amount), 1))

\* Two rows with both values: one below both thresholds and not flagged, one
\* at the thresholds and flagged.
C27_Witness ==
    /\ enriched # Null /\ HasCol(Enriched.schema, "is_luxury")
    /\ Len(LuxuryBase) >= 2
    /\ \E i, j \in 1..Len(Enriched.rows) :
          /\ Enriched.rows[i].is_luxury = Some(FALSE) /\ NotNull(Enriched.rows[i].price_per_sqft)
          /\ Enriched.rows[j].is_luxury = Some(TRUE) /\ NotNull(Enriched.rows[j].price_per_sqft)

\* A row without price_per_sqft is flagged on its amount alone.
C27_WitnessNullPsf ==
    /\ enriched # Null /\ HasCol(Enriched.schema, "is_luxury")
    /\ \E k \in 1..Len(Enriched.rows) :
          /\ Enriched.rows[k].is_luxury = Some(TRUE) /\ IsNull(Enriched.rows[k].price_per_sqft)

\* No row has both values: the flag is false everywhere.
C27_WitnessNoBase ==
    /\ enriched # Null /\ HasCol(Enriched.schema, "is_luxury") /\ Len(Enriched.rows) > 0
    /\ LuxuryBase = <<>>
    /\ \A i \in 1..Len(Enriched.rows) : Enriched.rows[i].is_luxury = Some(FALSE)

\* C30: whenever enrich() produces contract_season it is never null: it is
\* "Winter" for a start date in months 12, 1, 2, "Spring" for 3, 4, 5,
\* "Summer" for 6, 7, 8 and "Fall" for every other row; a row whose
\* contract_start_date is null has null year, quarter, month and weekday and
\* the season "Fall".
C30_Season ==
    (enriched # Null /\ HasCol(Enriched.schema, "contract_season")) =>
        \A i \in 1..Len(df) :
            LET row == Enriched.rows[i]
                start == df[i].contract_start_date
            IN  /\ NotNull(row.contract_season)
                /\ IF IsNull(start)
                   THEN /\ row.contract_season = Some("Fall")
                        /\ IsNull(row.contract_year) /\ IsNull(row.contract_quarter)
                        /\ IsNull(row.contract_month) /\ IsNull(row.contract_weekday)
                   ELSE LET month == dt_month(Val(start))
                        IN  /\ row.contract_month = Some(month)
                            /\ row.contract_season =
                                  Some(CASE month \in {12, 1, 2} -> "Winter"
                                         [] month \in {3, 4, 5} -> "Spring"
                                         [] month \in {6, 7, 8} -> "Summer"
                                         [] OTHER -> "Fall")

\* A row without start date beside a row of a winter month.
C30_Witness ==
    /\ enriched # Null /\ HasCol(Enriched.schema, "contract_season")
    /\ \E i, j \in 1..Len(df) :
          /\ IsNull(df[i].contract_start_date) /\ Enriched.rows[i].contract_season = Some("Fall")
          /\ Enriched.rows[j].contract_month = Some(1)
          /\ Enriched.rows[j].contract_season = Some("Winter")

(***************************************************************************)
(* Properties of type validation                                           *)
(***************************************************************************)
NotNumericMsgs(msgs, field) ==
    SelectSeq(msgs, LAMBDA m : m.check = "not_numeric" /\ m.fields[1] = field)

\* C26: for each configured numeric field that is a column, type validation
\* adds one warning naming the field and its type when the type is not an
\* integer or floating-point type, and none when it is one, whatever its
\* width or signedness; never an error.
C26_NumericKinds ==
    \A strict \in BOOLEAN : \A field \in Range(numeric_fields) :
        (Done(strict) /\ HasCol(schema, field)) =>
            /\ NotNumericMsgs(Res(strict).warnings, field) =
                  IF schema[field] \in IntegerDtypes \cup FloatDtypes THEN <<>>
                  ELSE <<Msg("not_numeric", <<field, schema[field]>>, 0, 0)>>
            /\ NotNumericMsgs(Res(strict).errors, field) = <<>>

\* What _validate_data_types does: no warning for Int64, Int32, Float64 and
\* Float32 only.
C26_FourTypes ==
    \A strict \in BOOLEAN : \A field \in Range(numeric_fields) :
        (Done(strict) /\ HasCol(schema, field)) =>
            NotNumericMsgs(Res(strict).warnings, field) =
                IF schema[field] \in {"Int64", "Int32", "Float64", "Float32"} THEN <<>>
                ELSE <<Msg("not_numeric", <<field, schema[field]>>, 0, 0)>>

(***************************************************************************)
(* Properties of identify_high_demand_areas                                *)
(***************************************************************************)
QualifyingAreas == {area \in Areas : Qualifying(area) >= min_area_sample_size}
QualifyingTotal ==
    Len(SelectSeq(df, LAMBDA row : PsfQualifies(row) /\ row.area_name_en \in QualifyingAreas))
TopAreas == Out.frame.rows
TopShares == [i \in 1..Len(TopAreas) |-> Val(TopAreas[i].market_share_pct)]

\* C28: identify_high_demand_areas returns min(top_n, number of qualifying
\* areas) rows, one per area, the areas left out having no more contracts
\* than the ones returned; each row carries the area's count of qualifying
\* rows and market_share_pct = count / total x 100, the total being the sum
\* of the counts of all areas with at least the minimum sample size; the
\* returned shares sum to 100 exactly when no qualifying area is cut off.
C28_HighDemandAreas ==
    (Called("identify_high_demand_areas") /\ Val(ma).source = "dataset") =>
        LET top_n == Out.args[2]
            returned == {TopAreas[i].area_name_en : i \in 1..Len(TopAreas)}
        IN  /\ Out.raised = ""
            /\ Len(TopAreas) = IF top_n < Cardinality(QualifyingAreas) THEN top_n
                               ELSE Cardinality(QualifyingAreas)
            /\ Cardinality(returned) = Len(TopAreas)
            /\ returned \subseteq QualifyingAreas
            /\ \A area \in QualifyingAreas \ returned : \A i \in 1..Len(TopAreas) :
                   Qualifying(area) <= Val(TopAreas[i].contract_count)
            /\ \A i \in 1..Len(TopAreas) :
                   /\ Val(TopAreas[i].contract_count) = Qualifying(TopAreas[i].area_name_en)
                   /\ FEq(TopShares[i],
                          Frac(Val(TopAreas[i].contract_count) * 100, QualifyingTotal))
            /\ FEq(FSum(TopShares), Frac(100, 1)) <=> returned = QualifyingAreas

\* What the call does: it raises TypeError when some row has positive area
\* and amount, and returns a frame without rows otherwise.
C28_RaisesOrEmpty ==
    (Called("identify_high_demand_areas") /\ Val(ma).source = "dataset") =>
        IF HasCol(schema, "area_name_en") /\ HasCol(schema, "actual_area")
           /\ \E i \in 1..Len(df) : Positive(df[i].actual_area) /\ Positive(df[i].annual_amount)
        THEN Out.raised = "TypeError"
        ELSE Out.raised = "" /\ Out.frame.rows = <<>>

====
